---- MODULE Spec2Model ----
(***************************************************************************)
(* Model of the Drive duplicate cleaner (petalo/gdrive-duplicates-cleaner). *)
(*                                                                         *)
(* The remote store is a set of folders and files.  A listing of a folder  *)
(* (getFiles, getFolders, getFilesByName) returns every child, trashed or  *)
(* not: the code itself filters listed files with isTrashed().  Listings   *)
(* are returned in ascending identity order; the initial states give every *)
(* assignment of attributes to identities, so every relative order of the  *)
(* files of a folder is covered.                                           *)
(*                                                                         *)
(* Timestamps are counted in units of one hour; DUPLICATION_WINDOW_MS is   *)
(* the window in the same unit.                                            *)
(***************************************************************************)
EXTENDS Integers, Sequences, FiniteSets, TLC

VARIABLES files, folders, cfg, elapsed, calls, store0, pf, mg, result, inv

vars == <<files, folders, cfg, elapsed, calls, store0, pf, mg, result, inv>>

(***************************************************************************)
(* Bounds of the model.                                                    *)
(***************************************************************************)
NumDedupFiles == 3      \* files of the folder given to processFolder
MaxTime == 3            \* creation times are 0..MaxTime
MaxWindow == 2          \* the duplication window is at most MaxWindow
MaxMergeTime == 1       \* creation times of the files of a merge
MaxElapsed == 1         \* the clock reads 0..MaxElapsed at a timeout check
NumNameFiles == 4       \* files of the target folder of generateUniqueName

(***************************************************************************)
(* Strings.  A name is a sequence of one-character strings, so that the    *)
(* code's index arithmetic (lastIndexOf, substring, slice) can be modelled.*)
(***************************************************************************)
NoIndex == 0 - 1

RECURSIVE LastIndexOfFrom(_, _, _)
LastIndexOfFrom(s, c, k) ==
  IF k = 0 THEN NoIndex
  ELSE IF s[k] = c THEN k - 1
  ELSE LastIndexOfFrom(s, c, k - 1)

\* String.prototype.lastIndexOf: 0-based index of the last c, -1 when absent.
LastIndexOf(s, c) == LastIndexOfFrom(s, c, Len(s))

\* String.prototype.substring(from, to) with 0-based, end-exclusive indices.
Substring(s, from, to) == SubSeq(s, from + 1, to)

ToLowerChar(c) ==
  CASE c = "A" -> "a"
    [] c = "B" -> "b"
    [] c = "P" -> "p"
    [] c = "Q" -> "q"
    [] c = "X" -> "x"
    [] OTHER -> c

\* String.prototype.toLowerCase
ToLowerCase(s) == [k \in 1..Len(s) |-> ToLowerChar(s[k])]

\* (x >>> 0) + 2 for x = -2 or -1 is 4294967296 or 4294967297, an index
\* past the end of every string; this is the largest index TLC can hold and
\* is past the end of every name as well.
PastEnd == 2147483647

\* getFileExtension: slice(((lastIndexOf('.') - 1) >>> 0) + 2).toLowerCase().
\* With no dot, or a dot at index 0, the slice starts past the end.
GetFileExtension(filename) ==
  LET lastDot == LastIndexOf(filename, ".")
      start == IF lastDot - 1 < 0 THEN PastEnd ELSE (lastDot - 1) + 2
  IN  IF start >= Len(filename) THEN <<>>
      ELSE ToLowerCase(Substring(filename, start, Len(filename)))

(***************************************************************************)
(* The store.                                                              *)
(***************************************************************************)
MD5_ERROR == "ERR"    \* Drive.Files.get throws for this file
MD5_NONE == "NONE"    \* the metadata carries no md5Checksum

RootId == 0
NoParent == 0 - 1

RECURSIVE SetToSeq(_)
SetToSeq(S) ==
  IF S = {} THEN <<>>
  ELSE LET m == CHOOSE x \in S : \A y \in S : x <= y
       IN  <<m>> \o SetToSeq(S \ {m})

\* folder.getFiles(): every file whose parent is the folder, trashed or not.
GetFiles(fs, folder) == SetToSeq({f \in DOMAIN fs : fs[f].parent = folder})

\* folder.getFilesByName(name)
GetFilesByName(fs, folder, name) ==
  SetToSeq({f \in DOMAIN fs : fs[f].parent = folder /\ fs[f].name = name})

\* folder.getFolders(): every child folder, trashed or not.  A folder is a
\* child of its first parent (the one getParents() yields first) and of each
\* of its other parents.
GetFolders(fo, folder) ==
  SetToSeq({d \in DOMAIN fo : fo[d].parent = folder \/ folder \in fo[d].others})

\* file.isTrashed()
IsTrashedNever(fs, f) == FALSE
IsTrashed(fs, f) == fs[f].trashed

\* A permanent removal: the file leaves the store.
RemoveFile(fs, f) == [g \in DOMAIN fs \ {f} |-> fs[g]]

\* file.setTrashed(true)
SetTrashed(fs, f) == [fs EXCEPT ![f].trashed = TRUE]

\* setTrashed(true) throws on a file the script may not change.
SetTrashedThrows(fs, f) == fs[f].locked

\* file.moveTo(folder)
MoveTo(fs, f, folder) == [fs EXCEPT ![f].parent = folder]

\* file.setName(name)
SetName(fs, f, name) == [fs EXCEPT ![f].name = name]

(***************************************************************************)
(* utils.ts                                                                *)
(***************************************************************************)
\* isFileExcluded
IsFileExcluded(name, excludedExtensions) ==
  IF excludedExtensions = {} THEN FALSE
  ELSE GetFileExtension(name) \in excludedExtensions

(***************************************************************************)
(* processors.ts: processFolder                                            *)
(***************************************************************************)
\* Drive.Files.get(...).md5Checksum || null, inside the try of processFolder:
\* "throw" when the call fails, "null" when there is no checksum.
FetchMd5(fs, f) ==
  IF fs[f].md5 = MD5_ERROR THEN "throw"
  ELSE IF fs[f].md5 = MD5_NONE THEN "null"
  ELSE fs[f].md5

\* FileInfo pushed into fileGroups[md5]
FileInfoOf(fs, f) ==
  [id |-> f, name |-> fs[f].name, created |-> fs[f].created, size |-> fs[f].size]

\* fileGroups[md5].push(info); the object keeps its keys in insertion order.
PushToGroup(groups, md5, info) ==
  IF \E k \in 1..Len(groups) : groups[k].md5 = md5
  THEN [k \in 1..Len(groups) |->
          IF groups[k].md5 = md5
          THEN [groups[k] EXCEPT !.members = Append(@, info)]
          ELSE groups[k]]
  ELSE Append(groups, [md5 |-> md5, members |-> <<info>>])

\* The while loop over filesIterator: one file per call, in listing order.
RECURSIVE GroupFilesByMd5(_, _, _, _)
GroupFilesByMd5(fs, c, list, acc) ==
  IF list = <<>> THEN acc
  ELSE
    LET f == Head(list)
        rest == Tail(list)
        md5 == FetchMd5(fs, f)
    IN  IF IsTrashed(fs, f)
        THEN GroupFilesByMd5(fs, c, rest, acc)
        ELSE IF IsFileExcluded(fs[f].name, c.EXCLUDED_EXTENSIONS)
        THEN GroupFilesByMd5(fs, c, rest,
               [acc EXCEPT !.filesSkipped = @ + 1])
        ELSE IF md5 = "throw" \/ md5 = "null"
        THEN GroupFilesByMd5(fs, c, rest,
               [acc EXCEPT !.filesSkipped = @ + 1])
        ELSE GroupFilesByMd5(fs, c, rest,
               [acc EXCEPT !.fileGroups = PushToGroup(@, md5, FileInfoOf(fs, f)),
                           !.filesAnalyzed = @ + 1])

\* The comparator of group.sort: (a, b) => a.created - b.created
CompareCreatedDesc(a, b) == b.created - a.created
CompareCreated(a, b) == a.created - b.created

RECURSIVE InsertSorted(_, _)
InsertSorted(sorted, x) ==
  IF sorted = <<>> THEN <<x>>
  ELSE IF CompareCreated(Head(sorted), x) > 0
       THEN <<x>> \o sorted
       ELSE <<Head(sorted)>> \o InsertSorted(Tail(sorted), x)

\* Array.prototype.sort is stable: equal elements keep their order.
RECURSIVE SortGroup(_)
SortGroup(group) ==
  IF group = <<>> THEN <<>>
  ELSE InsertSorted(SortGroup(SubSeq(group, 1, Len(group) - 1)), group[Len(group)])

\* duplicate.created - oldest.created < config.DUPLICATION_WINDOW_MS
\* parseFloat of a text that is no number; every comparison with it is
\* false.
NaN == 0 - 7

\* a < b of JavaScript numbers.
Less(a, b) == a # NaN /\ b # NaN /\ a < b

WithinDuplicationWindow(duplicate, oldest, window) ==
  Less(duplicate.created - oldest.created, window)

\* if (!config.DRY_RUN) around duplicate.fileObject.setTrashed(true)
DedupLive(c) == ~c.DRY_RUN

PfIdle == [pc |-> "idle", folder |-> NoParent, fileGroups |-> <<>>, g |-> 0,
           group |-> <<>>, i |-> 0, filesAnalyzed |-> 0, filesSkipped |-> 0,
           filesDeleted |-> 0, spaceFreed |-> 0]

PfStart(folder) == [PfIdle EXCEPT !.pc = "scan", !.folder = folder]

\* Lines 136-196: list the folder, group the files by MD5.
ProcessFolderScan(fs, c, p) ==
  LET acc == GroupFilesByMd5(fs, c, GetFiles(fs, p.folder),
               [fileGroups |-> <<>>, filesAnalyzed |-> 0, filesSkipped |-> 0])
  IN  [files |-> fs,
       pf |-> [p EXCEPT !.pc = "groups", !.fileGroups = acc.fileGroups,
                        !.filesAnalyzed = acc.filesAnalyzed,
                        !.filesSkipped = acc.filesSkipped,
                        !.g = 0, !.filesDeleted = 0, !.spaceFreed = 0],
       calls |-> <<>>]

\* Lines 198-206: the next md5 of the for-in loop; a group of one is passed
\* over, a larger one is sorted and its inner loop starts at index 1.
ProcessFolderNextGroup(fs, c, p) ==
  LET g == p.g + 1
  IN  IF g > Len(p.fileGroups)
      THEN [files |-> fs, pf |-> [p EXCEPT !.pc = "done"], calls |-> <<>>]
      ELSE IF Len(p.fileGroups[g].members) > 1
      THEN [files |-> fs,
            pf |-> [p EXCEPT !.pc = "dups", !.g = g,
                             !.group = SortGroup(p.fileGroups[g].members),
                             !.i = 1],
            calls |-> <<>>]
      ELSE [files |-> fs, pf |-> [p EXCEPT !.g = g], calls |-> <<>>]

\* Lines 210-227: one iteration of the inner loop (i is the 0-based index).
ProcessFolderDuplicate(fs, c, p) ==
  LET oldest == p.group[1]
      duplicate == p.group[p.i + 1]
      within == WithinDuplicationWindow(duplicate, oldest, c.DUPLICATION_WINDOW_MS)
      live == within /\ DedupLive(c)
      p1 == IF within
            THEN [p EXCEPT !.filesDeleted = @ + 1,
                           !.spaceFreed = @ + duplicate.size]
            ELSE p
      p2 == IF p.i + 1 < Len(p.group)
            THEN [p1 EXCEPT !.i = @ + 1]
            ELSE [p1 EXCEPT !.pc = "groups"]
  IN  IF live /\ SetTrashedThrows(fs, duplicate.id)
      THEN [files |-> fs, pf |-> [p EXCEPT !.pc = "threw"], calls |-> <<>>]
      ELSE
      [files |-> IF live THEN SetTrashed(fs, duplicate.id) ELSE fs,
       pf |-> p2,
       calls |-> IF live THEN <<[op |-> "setTrashed", kind |-> "file",
                                 id |-> duplicate.id, arg |-> TRUE]>>
                 ELSE <<>>]

ProcessFolderStep(fs, c, p) ==
  CASE p.pc = "scan" -> ProcessFolderScan(fs, c, p)
    [] p.pc = "groups" -> ProcessFolderNextGroup(fs, c, p)
    [] p.pc = "dups" -> ProcessFolderDuplicate(fs, c, p)

\* processFolder from its first line to its return.
RECURSIVE ProcessFolderRun(_, _, _)
ProcessFolderRun(fs, c, p) ==
  IF p.pc \in {"done", "threw"} THEN [files |-> fs, pf |-> p]
  ELSE LET r == ProcessFolderStep(fs, c, p)
       IN  ProcessFolderRun(r.files, c, r.pf)

(***************************************************************************)
(* utils.ts: isFolderExcluded                                              *)
(***************************************************************************)
\* The while (true) loop: current = parents.next() until a folder has no
\* parent, true as soon as one of them is in the list.
RECURSIVE AnyParentExcluded(_, _, _)
AnyParentExcluded(fo, current, excludedFolderIds) ==
  IF fo[current].parent = NoParent THEN FALSE
  ELSE IF fo[current].parent \in excludedFolderIds THEN TRUE
  ELSE AnyParentExcluded(fo, fo[current].parent, excludedFolderIds)

IsFolderExcludedSelfOnly(fo, folder, excludedFolderIds) ==
  folder \in excludedFolderIds

IsFolderExcluded(fo, folder, excludedFolderIds) ==
  IF excludedFolderIds = {} THEN FALSE
  ELSE IF folder \in excludedFolderIds THEN TRUE
  ELSE AnyParentExcluded(fo, folder, excludedFolderIds)

(***************************************************************************)
(* folder-merger.ts                                                        *)
(***************************************************************************)
\* The inner while loop of buildFolderTree over one folder's subfolders:
\* the nodes pushed to allFolders.
RECURSIVE ChildNodes(_, _, _, _)
ChildNodes(fo, c, current, subFolders) ==
  IF subFolders = <<>> THEN <<>>
  ELSE
    LET subFolder == Head(subFolders)
        rest == ChildNodes(fo, c, current, Tail(subFolders))
    IN  IF IsFolderExcluded(fo, subFolder, c.EXCLUDED_FOLDER_IDS) THEN rest
        ELSE <<[id |-> subFolder, name |-> fo[subFolder].name,
                parentId |-> current.id, level |-> current.level + 1]>> \o rest

\* if (config.MERGE_FOLDERS_RECURSIVE) around queue.push
RecurseAlways(c) == TRUE
Recurse(c) == c.MERGE_FOLDERS_RECURSIVE

\* One turn of the outer while loop of buildFolderTree: queue.shift(), list,
\* push.
BuildFolderTreeTurn(fo, c, queue, allFolders) ==
  LET current == Head(queue)
      nodes == ChildNodes(fo, c, current, GetFolders(fo, current.id))
      pushed == IF Recurse(c)
                THEN [k \in 1..Len(nodes) |->
                        [id |-> nodes[k].id, level |-> nodes[k].level]]
                ELSE <<>>
  IN  [queue |-> Tail(queue) \o pushed, allFolders |-> allFolders \o nodes]

\* The outer while loop of buildFolderTree.
RECURSIVE BuildFolderTreeLoop(_, _, _, _)
BuildFolderTreeLoop(fo, c, queue, allFolders) ==
  IF queue = <<>> THEN allFolders
  ELSE
    LET turn == BuildFolderTreeTurn(fo, c, queue, allFolders)
    IN  BuildFolderTreeLoop(fo, c, turn.queue, turn.allFolders)

BuildFolderTree(fo, c, rootFolder) ==
  BuildFolderTreeLoop(fo, c, <<[id |-> rootFolder, level |-> 0]>>, <<>>)

\* The folders the outer loop of buildFolderTree takes from its queue, that
\* is, those it calls getFolders() on.
RECURSIVE ListedByScanLoop(_, _, _, _)
ListedByScanLoop(fo, c, queue, listed) ==
  IF queue = <<>> THEN listed
  ELSE
    LET current == Head(queue)
        nodes == ChildNodes(fo, c, current, GetFolders(fo, current.id))
        pushed == IF Recurse(c)
                  THEN [k \in 1..Len(nodes) |->
                          [id |-> nodes[k].id, level |-> nodes[k].level]]
                  ELSE <<>>
    IN  ListedByScanLoop(fo, c, Tail(queue) \o pushed, listed \cup {current.id})

ListedByScan(fo, c, rootFolder) ==
  ListedByScanLoop(fo, c, <<[id |-> rootFolder, level |-> 0]>>, {})

\* current.folder.getFolders() throws for a folder that cannot be read;
\* buildFolderTree has no try around it, so the exception leaves the scan.
BuildFolderTreeThrows(fo, c, rootFolder) ==
  \E d \in ListedByScan(fo, c, rootFolder) : fo[d].denied

\* `${node.parentId}::${node.name.toLowerCase()}`: identities hold no colon,
\* so the string is determined by, and determines, the pair.
GroupKeyCaseSensitive(node) == <<node.parentId, node.name>>
GroupKey(node) == <<node.parentId, ToLowerCase(node.name)>>

\* groupDuplicateFolders: a Map keeps its keys in insertion order.
RECURSIVE GroupDuplicateFoldersLoop(_, _)
GroupDuplicateFoldersLoop(folderTree, groups) ==
  IF folderTree = <<>> THEN groups
  ELSE
    LET node == Head(folderTree)
        key == GroupKey(node)
        next == IF \E k \in 1..Len(groups) : groups[k].key = key
                THEN [k \in 1..Len(groups) |->
                        IF groups[k].key = key
                        THEN [groups[k] EXCEPT !.folders = Append(@, node)]
                        ELSE groups[k]]
                ELSE Append(groups, [key |-> key, folders |-> <<node>>])
    IN  GroupDuplicateFoldersLoop(Tail(folderTree), next)

GroupDuplicateFolders(folderTree) == GroupDuplicateFoldersLoop(folderTree, <<>>)

\* countFilesRecursive
RECURSIVE CountFilesRecursive(_, _, _)
RECURSIVE CountFilesInAll(_, _, _)
CountFilesInAll(fs, fo, subFolders) ==
  IF subFolders = <<>> THEN 0
  ELSE CountFilesRecursive(fs, fo, Head(subFolders))
       + CountFilesInAll(fs, fo, Tail(subFolders))

CountFilesRecursive(fs, fo, folder) ==
  Len(GetFiles(fs, folder)) + CountFilesInAll(fs, fo, GetFolders(fo, folder))

\* The callbacks of the three reduce calls of selectTargetFolder: TRUE when
\* current replaces the accumulator.
ReducePrefersOnTie(fs, fo, strategy, current, acc) ==
  CASE strategy = "OLDEST" -> fo[current.id].created <= fo[acc.id].created
    [] strategy = "NEWEST" -> fo[current.id].updated >= fo[acc.id].updated
    [] strategy = "MOST_FILES" ->
         CountFilesRecursive(fs, fo, current.id) >= CountFilesRecursive(fs, fo, acc.id)
ReducePrefers(fs, fo, strategy, current, acc) ==
  CASE strategy = "OLDEST" -> fo[current.id].created < fo[acc.id].created
    [] strategy = "NEWEST" -> fo[current.id].updated > fo[acc.id].updated
    [] strategy = "MOST_FILES" ->
         CountFilesRecursive(fs, fo, current.id) > CountFilesRecursive(fs, fo, acc.id)

\* Array.prototype.reduce without an initial value: the accumulator starts
\* as the first element and the callback sees the others in order.
RECURSIVE ReduceFolders(_, _, _, _, _, _)
ReduceFolders(fs, fo, strategy, nodes, k, acc) ==
  IF k > Len(nodes) THEN acc
  ELSE ReduceFolders(fs, fo, strategy, nodes, k + 1,
         IF ReducePrefers(fs, fo, strategy, nodes[k], acc) THEN nodes[k] ELSE acc)

\* selectTargetFolder
SelectTargetFolder(fs, fo, nodes, c) ==
  IF c.MERGE_KEEP_FOLDER_STRATEGY \in {"OLDEST", "NEWEST", "MOST_FILES"}
  THEN ReduceFolders(fs, fo, c.MERGE_KEEP_FOLDER_STRATEGY, nodes, 2, nodes[1])
  ELSE nodes[1]

\* getMd5Checksum: metadata.md5Checksum || null, and null when the call throws.
GetMd5Checksum(fs, f) ==
  IF fs[f].md5 = MD5_ERROR \/ fs[f].md5 = MD5_NONE THEN "null" ELSE fs[f].md5

Abs(x) == IF x < 0 THEN 0 - x ELSE x

\* timeDiff > config.DUPLICATION_WINDOW_MS
OutsideWindowStrictInside(timeDiff, window) == timeDiff >= window
OutsideMergeWindow(timeDiff, window) == Less(window, timeDiff)

\* existingCreated <= incomingCreated
ExistingIsOlderStrict(existingCreated, incomingCreated) ==
  existingCreated < incomingCreated
ExistingIsOlder(existingCreated, incomingCreated) ==
  existingCreated <= incomingCreated

\* resolveFileConflict: the resolution field of the returned object.
ResolveFileConflict(fs, existingFile, incomingFile, c) ==
  LET existingMd5 == GetMd5Checksum(fs, existingFile)
      incomingMd5 == GetMd5Checksum(fs, incomingFile)
      existingCreated == fs[existingFile].created
      incomingCreated == fs[incomingFile].created
      timeDiff == Abs(incomingCreated - existingCreated)
  IN  IF existingMd5 = "null" \/ incomingMd5 = "null" THEN "RENAME_INCOMING"
      ELSE IF existingMd5 # incomingMd5 THEN "RENAME_INCOMING"
      ELSE IF OutsideMergeWindow(timeDiff, c.DUPLICATION_WINDOW_MS)
           THEN "RENAME_INCOMING"
      ELSE IF ExistingIsOlder(existingCreated, incomingCreated)
           THEN "KEEP_EXISTING"
      ELSE "KEEP_INCOMING"

Digit(d) ==
  CASE d = 0 -> "0" [] d = 1 -> "1" [] d = 2 -> "2" [] d = 3 -> "3"
    [] d = 4 -> "4" [] d = 5 -> "5" [] d = 6 -> "6" [] d = 7 -> "7"
    [] d = 8 -> "8" [] d = 9 -> "9"

\* `${counter}`: the decimal digits of a non-negative integer.
RECURSIVE NumberToString(_)
NumberToString(n) ==
  IF n < 10 THEN <<Digit(n)>>
  ELSE NumberToString(n \div 10) \o <<Digit(n % 10)>>

\* Lines 415-425: the split of baseName into name and ext.
SplitAtAnyDot(baseName) ==
  LET lastDot == LastIndexOf(baseName, ".")
  IN  IF lastDot >= 0
      THEN [name |-> Substring(baseName, 0, lastDot),
            ext |-> Substring(baseName, lastDot, Len(baseName))]
      ELSE [name |-> baseName, ext |-> <<>>]
SplitName(baseName) ==
  LET lastDot == LastIndexOf(baseName, ".")
  IN  IF lastDot > 0
      THEN [name |-> Substring(baseName, 0, lastDot),
            ext |-> Substring(baseName, lastDot, Len(baseName))]
      ELSE [name |-> baseName, ext |-> <<>>]

\* `${name} (${counter})${ext}`
NumberedName(name, counter, ext) ==
  name \o <<" ", "(">> \o NumberToString(counter) \o <<")">> \o ext

\* The first value of counter in generateUniqueName.
FirstCounter == 2

\* The while loop of generateUniqueName.
RECURSIVE UniqueNameFrom(_, _, _, _, _)
UniqueNameFrom(fs, targetFolder, name, ext, counter) ==
  IF GetFilesByName(fs, targetFolder, NumberedName(name, counter, ext)) # <<>>
  THEN UniqueNameFrom(fs, targetFolder, name, ext, counter + 1)
  ELSE NumberedName(name, counter, ext)

GenerateUniqueName(fs, baseName, targetFolder) ==
  LET parts == SplitName(baseName)
  IN  UniqueNameFrom(fs, targetFolder, parts.name, parts.ext, FirstCounter)

\* isFolderEmpty
IsFolderEmptyNoFolders(fs, fo, folder) == GetFiles(fs, folder) = <<>>
IsFolderEmpty(fs, fo, folder) ==
  GetFiles(fs, folder) = <<>> /\ GetFolders(fo, folder) = <<>>

(***************************************************************************)
(* folder-merger.ts: mergeDuplicateFolders and mergeFolder as steps        *)
(***************************************************************************)
NoNode == [id |-> NoParent, name |-> <<>>, parentId |-> NoParent, level |-> 0]

NoConflict == [existingFile |-> NoParent, incomingFile |-> NoParent,
               resolution |-> "NONE"]

ZeroMergeResult == [filesMoved |-> 0, duplicatesHandled |-> 0, filesRenamed |-> 0]

ZeroMergeStats ==
  [foldersScanned |-> 0, duplicateGroupsFound |-> 0, foldersMerged |-> 0,
   filesMovedDuringMerge |-> 0, filesDuplicatedDuringMerge |-> 0,
   filesRenamedDuringMerge |-> 0, emptyFoldersDeleted |-> 0]

MgIdle == [pc |-> "idle", root |-> NoParent, folderTree |-> <<>>, listed |-> {},
           groups |-> <<>>,
           g |-> 0, target |-> NoNode, sources |-> <<>>, s |-> 0,
           sourceFiles |-> <<>>, k |-> 0, conflict |-> NoConflict,
           mergeResult |-> ZeroMergeResult, stats |-> ZeroMergeStats]

MgStart(rootFolder) == [MgIdle EXCEPT !.pc = "scan", !.root = rootFolder]

\* Date.now() - globalStartTime > config.MAX_EXECUTION_TIME_MS, the deadline
\* check of mergeDuplicateFolders, processRootFolder and the entry point.
TimedOutNever(now, c) == FALSE
TimedOut(now, c) == Less(c.MAX_EXECUTION_TIME_MS, now)

\* Lines 76-80: the groups with more than one folder.
CountDuplicateGroups(groups) ==
  Cardinality({k \in 1..Len(groups) : Len(groups[k].folders) > 1})

\* folders.filter(f => f.id !== targetFolder.id)
RECURSIVE FilterNotTarget(_, _)
FilterNotTarget(nodes, targetId) ==
  IF nodes = <<>> THEN <<>>
  ELSE IF Head(nodes).id # targetId
       THEN <<Head(nodes)>> \o FilterNotTarget(Tail(nodes), targetId)
       ELSE FilterNotTarget(Tail(nodes), targetId)

\* Lines 65-87: scan, group, count, and return when nothing is duplicated.
\* An exception of buildFolderTree is caught nowhere in mergeDuplicateFolders
\* and ends it ("failed").
MergeScan(fs, fo, c, m) ==
  LET folderTree == BuildFolderTree(fo, c, m.root)
      groups == GroupDuplicateFolders(folderTree)
      found == CountDuplicateGroups(groups)
      stats == [ZeroMergeStats EXCEPT !.foldersScanned = Len(folderTree),
                                      !.duplicateGroupsFound = found]
  IN  IF BuildFolderTreeThrows(fo, c, m.root)
      THEN [files |-> fs, folders |-> fo, mg |-> [m EXCEPT !.pc = "failed"],
            calls |-> <<>>]
      ELSE [files |-> fs, folders |-> fo,
            mg |-> [m EXCEPT !.pc = IF found = 0 THEN "done" ELSE "groups",
                             !.folderTree = folderTree,
                             !.listed = ListedByScan(fo, c, m.root),
                             !.groups = groups, !.g = 0, !.stats = stats],
            calls |-> <<>>]

\* Lines 90-104: the next entry of duplicateGroups; now is Date.now() -
\* globalStartTime at the timeout check.
MergeNextGroup(fs, fo, c, m, now) ==
  LET g == m.g + 1
      nodes == m.groups[g].folders
      target == SelectTargetFolder(fs, fo, nodes, c)
  IN  IF g > Len(m.groups)
      THEN [files |-> fs, folders |-> fo, mg |-> [m EXCEPT !.pc = "done"],
            calls |-> <<>>]
      ELSE IF Len(nodes) < 2
      THEN [files |-> fs, folders |-> fo, mg |-> [m EXCEPT !.g = g], calls |-> <<>>]
      ELSE IF TimedOut(now, c)
      THEN [files |-> fs, folders |-> fo, mg |-> [m EXCEPT !.pc = "done"],
            calls |-> <<>>]
      ELSE [files |-> fs, folders |-> fo,
            mg |-> [m EXCEPT !.pc = "sources", !.g = g, !.target = target,
                             !.sources = FilterNotTarget(nodes, target.id),
                             !.s = 0],
            calls |-> <<>>]

\* Lines 107-110 and 260-262: the next source folder, and the call of
\* mergeFolder up to sourceNode.folder.getFiles().
MergeNextSource(fs, fo, c, m) ==
  LET s == m.s + 1
      listed == GetFiles(fs, m.sources[s].id)
  IN  IF s > Len(m.sources)
      THEN [files |-> fs, folders |-> fo, mg |-> [m EXCEPT !.pc = "groups"],
            calls |-> <<>>]
      ELSE [files |-> fs, folders |-> fo,
            mg |-> [m EXCEPT !.pc = IF listed = <<>> THEN "merged" ELSE "files",
                             !.s = s, !.sourceFiles = listed, !.k = 0,
                             !.conflict = NoConflict,
                             !.mergeResult = ZeroMergeResult],
            calls |-> <<>>]

\* if (!config.DRY_RUN) around every move, rename and trash of the merge
MergeLiveAlways(c) == TRUE
MergeLive(c) == ~c.DRY_RUN

Call(op, kind, id, arg) == [op |-> op, kind |-> kind, id |-> id, arg |-> arg]

\* Lines 264-324: one iteration of the while loop of mergeFolder.
MergeFile(fs, fo, c, m) ==
  LET sourceFile == m.sourceFiles[m.k + 1]
      target == m.target.id
      existingFiles == GetFilesByName(fs, target, fs[sourceFile].name)
      existingFile == Head(existingFiles)
      resolution == ResolveFileConflict(fs, existingFile, sourceFile, c)
      newName == GenerateUniqueName(fs, fs[sourceFile].name, target)
      live == MergeLive(c)
      next == [m EXCEPT !.k = @ + 1,
                        !.pc = IF m.k + 1 < Len(m.sourceFiles) THEN "files"
                               ELSE "merged"]
  IN  IF IsTrashed(fs, sourceFile)
      THEN [files |-> fs, folders |-> fo,
            mg |-> [next EXCEPT !.conflict = NoConflict], calls |-> <<>>]
      ELSE IF existingFiles = <<>>
      THEN [files |-> IF live THEN MoveTo(fs, sourceFile, target) ELSE fs,
            folders |-> fo,
            mg |-> [next EXCEPT !.conflict = NoConflict,
                                !.mergeResult.filesMoved = @ + 1],
            calls |-> IF live THEN <<Call("moveTo", "file", sourceFile, target)>>
                      ELSE <<>>]
      ELSE
        LET conflict == [existingFile |-> existingFile, incomingFile |-> sourceFile,
                         resolution |-> resolution]
        IN  CASE resolution = "KEEP_EXISTING" ->
                   [files |-> IF live THEN SetTrashed(fs, sourceFile) ELSE fs,
                    folders |-> fo,
                    mg |-> [next EXCEPT !.conflict = conflict,
                                        !.mergeResult.duplicatesHandled = @ + 1],
                    calls |-> IF live
                              THEN <<Call("setTrashed", "file", sourceFile, TRUE)>>
                              ELSE <<>>]
              [] resolution = "KEEP_INCOMING" ->
                   [files |-> IF live
                              THEN MoveTo(SetTrashed(fs, existingFile), sourceFile, target)
                              ELSE fs,
                    folders |-> fo,
                    mg |-> [next EXCEPT !.conflict = conflict,
                                        !.mergeResult.duplicatesHandled = @ + 1],
                    calls |-> IF live
                              THEN <<Call("setTrashed", "file", existingFile, TRUE),
                                     Call("moveTo", "file", sourceFile, target)>>
                              ELSE <<>>]
              [] resolution = "RENAME_INCOMING" ->
                   [files |-> IF live
                              THEN MoveTo(SetName(fs, sourceFile, newName), sourceFile, target)
                              ELSE fs,
                    folders |-> fo,
                    mg |-> [next EXCEPT !.conflict = conflict,
                                        !.mergeResult.filesRenamed = @ + 1],
                    calls |-> IF live
                              THEN <<Call("setName", "file", sourceFile, newName),
                                     Call("moveTo", "file", sourceFile, target)>>
                              ELSE <<>>]

\* Lines 112-127: the statistics of the merged source, then the removal of
\* the source folder when isFolderEmpty says it is empty.
MergeSourceDone(fs, fo, c, m) ==
  LET source == m.sources[m.s].id
      empty == IsFolderEmpty(fs, fo, source)
      live == empty /\ MergeLive(c)
      stats == [m.stats EXCEPT
                  !.filesMovedDuringMerge = @ + m.mergeResult.filesMoved,
                  !.filesDuplicatedDuringMerge = @ + m.mergeResult.duplicatesHandled,
                  !.filesRenamedDuringMerge = @ + m.mergeResult.filesRenamed,
                  !.emptyFoldersDeleted = IF empty THEN @ + 1 ELSE @,
                  !.foldersMerged = @ + 1]
  IN  [files |-> fs,
       folders |-> IF live THEN [fo EXCEPT ![source].trashed = TRUE] ELSE fo,
       mg |-> [m EXCEPT !.pc = "sources", !.stats = stats],
       calls |-> IF live THEN <<Call("setTrashed", "folder", source, TRUE)>>
                 ELSE <<>>]

MergeStep(fs, fo, c, m, now) ==
  CASE m.pc = "scan" -> MergeScan(fs, fo, c, m)
    [] m.pc = "groups" -> MergeNextGroup(fs, fo, c, m, now)
    [] m.pc = "sources" -> MergeNextSource(fs, fo, c, m)
    [] m.pc = "files" -> MergeFile(fs, fo, c, m)
    [] m.pc = "merged" -> MergeSourceDone(fs, fo, c, m)

\* mergeDuplicateFolders from its first line to its return, with the clock
\* reading now at every timeout check.
RECURSIVE MergeRun(_, _, _, _, _)
MergeRun(fs, fo, c, m, now) ==
  IF m.pc \in {"done", "failed"} THEN [files |-> fs, folders |-> fo, mg |-> m]
  ELSE LET r == MergeStep(fs, fo, c, m, now)
       IN  MergeRun(r.files, r.folders, c, r.mg, now)

(***************************************************************************)
(* Initial states                                                          *)
(***************************************************************************)
NameAP == <<"a", ".", "p">>                          \* "a.p"
NameAX == <<"a", ".", "X">>                          \* "a.X"
NameA2P == <<"a", " ", "(", "2", ")", ".", "p">>     \* "a (2).p"

Folder(parent, name, created, updated) ==
  [parent |-> parent, others |-> {}, name |-> name, created |-> created,
   updated |-> updated, trashed |-> FALSE, denied |-> FALSE]

File(parent, name, md5, created, size, trashed) ==
  [parent |-> parent, name |-> name, md5 |-> md5, created |-> created,
   size |-> size, trashed |-> trashed, locked |-> FALSE]

RootFolder == Folder(NoParent, <<"R">>, 0, 0)

\* The size of file f: distinct powers of two, so that a sum of sizes names
\* the set of files it was taken over.
SizeOf(f) == 2 ^ (f - 1)

Config(dryRun, window, recursive, strategy) ==
  [DRY_RUN |-> dryRun, DUPLICATION_WINDOW_MS |-> window,
   EXCLUDED_EXTENSIONS |-> {<<"x">>}, EXCLUDED_FOLDER_IDS |-> {},
   MERGE_DUPLICATE_FOLDERS |-> TRUE,
   MERGE_FOLDERS_RECURSIVE |-> recursive,
   MERGE_KEEP_FOLDER_STRATEGY |-> strategy,
   ROOT_FOLDER_IDS |-> <<RootId>>, FOLDER_SORT_MODE |-> "LAST_UPDATED",
   FILE_AGE_FILTER_MS |-> 0,
   MAX_EXECUTION_TIME_MS |-> 0]

NoResult == [op |-> "none", a |-> 0, b |-> 0, value |-> "NONE"]

NoStore == [files |-> <<>>, folders |-> <<>>]

ZeroProcessingStats ==
  [foldersProcessed |-> 0, totalFolders |-> 0, filesAnalyzed |-> 0,
   filesSkipped |-> 0, filesDeleted |-> 0, spaceFreed |-> 0]

\* The invocation: which run of the operation this is (a trigger may run it
\* again), the store and the length of the call log when that run began,
\* and the position of cleanDuplicateAttachments and processRootFolder in
\* their loops.
InvIdle == [pc |-> "idle", run |-> 1, mark |-> 0, mid |-> NoStore,
            r |-> 0, list |-> <<>>, i |-> 0, started |-> {}, failed |-> {},
            stats |-> ZeroProcessingStats, totalStats |-> ZeroProcessingStats]

\* One file of a folder may be out of the ordinary: trashed, without a
\* checksum, with a failing checksum call, or with an excluded extension.
Special(file, kind) ==
  CASE kind = "trashed" -> [file EXCEPT !.trashed = TRUE]
    [] kind = "nomd5" -> [file EXCEPT !.md5 = MD5_NONE]
    [] kind = "md5error" -> [file EXCEPT !.md5 = MD5_ERROR]
    [] kind = "excluded" -> [file EXCEPT !.name = NameAX]
    [] OTHER -> file

\* processFolder is about to run on folder 1, the only subfolder of the root.
InitDedup ==
  /\ folders = [d \in {RootId, 1} |->
                  IF d = RootId THEN RootFolder ELSE Folder(RootId, <<"A">>, 0, 0)]
  /\ \E md5 \in [1..NumDedupFiles -> {"H1", "H2"}],
        created \in [1..NumDedupFiles -> 0..MaxTime],
        sp \in 0..NumDedupFiles,
        kind \in {"trashed", "nomd5", "md5error", "excluded"} :
       /\ md5[1] = "H1"
       /\ sp = 0 => kind = "trashed"
       /\ files = [f \in 1..NumDedupFiles |->
                     LET file == File(1, NameAP, md5[f], created[f], SizeOf(f), FALSE)
                     IN  IF f = sp THEN Special(file, kind) ELSE file]
  /\ \E dryRun \in BOOLEAN, window \in 1..MaxWindow :
       cfg = Config(dryRun, window, TRUE, "OLDEST")
  /\ elapsed = 0
  /\ calls = <<>>
  /\ store0 = [files |-> files, folders |-> folders]
  /\ pf = PfStart(1)
  /\ mg = MgIdle
  /\ result = NoResult
  /\ inv = InvIdle

\* mergeDuplicateFolders is about to run on the root.  Folders 1 ("A") and
\* 2 ("a") are duplicates; folder 3 is a third duplicate or a subfolder "Q"
\* of one of them.
InitMerge ==
  /\ \E created1 \in {0, 1}, role \in {"duplicate", "in1", "in2"} :
       folders = [d \in {RootId, 1, 2, 3} |->
         CASE d = RootId -> RootFolder
           [] d = 1 -> Folder(RootId, <<"A">>, created1, 0)
           [] d = 2 -> Folder(RootId, <<"a">>, 0, 0)
           [] d = 3 -> CASE role = "duplicate" -> Folder(RootId, <<"A">>, 1, 0)
                         [] role = "in1" -> Folder(1, <<"Q">>, 1, 0)
                         [] role = "in2" -> Folder(2, <<"Q">>, 1, 0)]
  /\ \E parent2 \in {1, 2}, parent3 \in {2, 3},
        name \in [1..3 -> {NameAP, NameA2P}],
        md5 \in [1..3 -> {"H1", "H2"}],
        created \in [1..3 -> 0..MaxMergeTime],
        tr \in 0..3 :
       /\ md5[1] = "H1"
       /\ files = [f \in 1..3 |->
                     File(CASE f = 1 -> 1 [] f = 2 -> parent2 [] f = 3 -> parent3,
                          name[f], md5[f], created[f], SizeOf(f), f = tr)]
  /\ \E dryRun \in BOOLEAN, recursive \in BOOLEAN :
       /\ folders[3].parent = RootId => recursive
       /\ cfg = Config(dryRun, 1, recursive, "OLDEST")
  /\ elapsed = 0
  /\ calls = <<>>
  /\ store0 = [files |-> files, folders |-> folders]
  /\ pf = PfIdle
  /\ mg = MgStart(RootId)
  /\ result = NoResult
  /\ inv = InvIdle

\* resolveFileConflict is about to be called on file 1 of the target folder
\* and file 2 of the source folder, which have the same name.
InitConflict ==
  /\ folders = [d \in {RootId, 1, 2} |->
                  IF d = RootId THEN RootFolder ELSE Folder(RootId, <<"A">>, 0, 0)]
  /\ \E md5 \in [1..2 -> {MD5_ERROR, MD5_NONE, "H1", "H2"}],
        created \in [1..2 -> 0..MaxTime] :
       files = [f \in 1..2 |-> File(f, NameAP, md5[f], created[f], SizeOf(f), FALSE)]
  /\ \E window \in 0..MaxWindow : cfg = Config(FALSE, window, TRUE, "OLDEST")
  /\ elapsed = 0
  /\ calls = <<>>
  /\ store0 = [files |-> files, folders |-> folders]
  /\ pf = PfIdle
  /\ mg = MgIdle
  /\ result = [op |-> "resolveFileConflict", a |-> 1, b |-> 2, value |-> "PENDING"]
  /\ inv = InvIdle

BaseNames == {NameAP, <<"a">>, <<".", "p">>, <<"a", ".", "b", ".", "p">>}

\* The names a file of the target folder may have when the incoming file is
\* called base: base itself and base with " (k)" before the extension.
NamesAround(base) ==
  {base} \cup {NumberedName(SplitName(base).name, k, SplitName(base).ext) :
                 k \in 2..(NumNameFiles + 1)}

\* generateUniqueName is about to be called for a base name and folder 1.
InitUniqueName ==
  /\ folders = [d \in {RootId, 1} |->
                  IF d = RootId THEN RootFolder ELSE Folder(RootId, <<"A">>, 0, 0)]
  /\ \E base \in BaseNames :
       /\ \E name \in [1..NumNameFiles -> NamesAround(base)], trashed1 \in BOOLEAN :
            files = [f \in 1..NumNameFiles |->
                       File(1, name[f], "H1", 0, SizeOf(f), f = 1 /\ trashed1)]
       /\ result = [op |-> "generateUniqueName", a |-> base, b |-> 1,
                    value |-> "PENDING"]
  /\ cfg = Config(FALSE, 1, TRUE, "OLDEST")
  /\ elapsed = 0
  /\ calls = <<>>
  /\ store0 = [files |-> files, folders |-> folders]
  /\ pf = PfIdle
  /\ mg = MgIdle
  /\ inv = InvIdle

\* The sets of excluded folders and the unreadable folder of a scan.
ExclusionSets == {{}, {RootId}, {1}, {2}, {3}, {4}, {1, 4}}

NoFolder == 0 - 2

\* mergeDuplicateFolders is about to run, live, on a root with folders 1
\* ("A") and 2 ("a"), a folder 3 ("Q") in one of them and a folder 4 ("q")
\* in one of the three; some folders are excluded, or one cannot be read.
InitScan ==
  /\ \E parent3 \in {1, 2}, parent4 \in {1, 2, 3}, denied \in {NoFolder, 1, 3, 4} :
       folders = [d \in {RootId, 1, 2, 3, 4} |->
         [ CASE d = RootId -> RootFolder
             [] d = 1 -> Folder(RootId, <<"A">>, 0, 0)
             [] d = 2 -> Folder(RootId, <<"a">>, 0, 0)
             [] d = 3 -> Folder(parent3, <<"Q">>, 0, 0)
             [] d = 4 -> Folder(parent4, <<"q">>, 0, 0)
           EXCEPT !.denied = (d = denied) ]]
  /\ \E parent1 \in {1, 3}, parent2 \in {2, 4}, parent3 \in {3, 4}, md5 \in {"H1", "H2"} :
       files = [f \in 1..3 |->
                  File(CASE f = 1 -> parent1 [] f = 2 -> parent2 [] f = 3 -> parent3,
                       NameAP, IF f = 2 THEN md5 ELSE "H1", 0, SizeOf(f), FALSE)]
  /\ \E excluded \in ExclusionSets, recursive \in BOOLEAN :
       /\ excluded # {} => \A d \in DOMAIN folders : ~folders[d].denied
       /\ cfg = [Config(FALSE, 1, recursive, "OLDEST") EXCEPT
                   !.EXCLUDED_FOLDER_IDS = excluded]
  /\ elapsed = 0
  /\ calls = <<>>
  /\ store0 = [files |-> files, folders |-> folders]
  /\ pf = PfIdle
  /\ mg = MgStart(RootId)
  /\ result = NoResult
  /\ inv = InvIdle

Strategies == {"OLDEST", "NEWEST", "MOST_FILES"}

\* No target selected yet.
NoTarget == [target |-> NoParent, sources |-> <<>>]

\* The FolderNode of folder d as buildFolderTree makes it for a child of the
\* root.
NodeOf(fo, d) == [id |-> d, name |-> fo[d].name, parentId |-> fo[d].parent, level |-> 1]

\* selectTargetFolder is about to be called on the group of folders 1, 2 and
\* 3, which share the name "A" under the root; folder 4 is a subfolder of
\* one of them and the files are anywhere below.
InitSelect ==
  /\ \E created \in [1..3 -> 0..MaxMergeTime], updated \in [1..3 -> 0..MaxMergeTime],
        parent4 \in 1..3 :
       folders = [d \in {RootId, 1, 2, 3, 4} |->
         CASE d = RootId -> RootFolder
           [] d = 4 -> Folder(parent4, <<"Q">>, 0, 0)
           [] OTHER -> Folder(RootId, <<"A">>, created[d], updated[d])]
  /\ \E parent \in [1..3 -> 1..4] :
       files = [f \in 1..3 |-> File(parent[f], NameAP, "H1", 0, SizeOf(f), FALSE)]
  /\ \E strategy \in Strategies : cfg = Config(FALSE, 1, TRUE, strategy)
  /\ elapsed = 0
  /\ calls = <<>>
  /\ store0 = [files |-> files, folders |-> folders]
  /\ pf = PfIdle
  /\ mg = MgIdle
  /\ result = [op |-> "selectTargetFolder",
               a |-> <<NodeOf(folders, 1), NodeOf(folders, 2), NodeOf(folders, 3)>>,
               b |-> 0, value |-> NoTarget]
  /\ inv = InvIdle

(***************************************************************************)
(* Actions                                                                 *)
(***************************************************************************)
ProcessFolderAct(r) ==
  /\ files' = r.files
  /\ pf' = r.pf
  /\ calls' = calls \o r.calls
  /\ UNCHANGED <<folders, cfg, elapsed, store0, mg, result, inv>>

PfScan ==
  /\ pf.pc = "scan"
  /\ ProcessFolderAct(ProcessFolderScan(files, cfg, pf))

PfNextGroup ==
  /\ pf.pc = "groups"
  /\ ProcessFolderAct(ProcessFolderNextGroup(files, cfg, pf))

PfDuplicate ==
  /\ pf.pc = "dups"
  /\ ProcessFolderAct(ProcessFolderDuplicate(files, cfg, pf))

MergeAct(r) ==
  /\ files' = r.files
  /\ folders' = r.folders
  /\ mg' = r.mg
  /\ calls' = calls \o r.calls
  /\ UNCHANGED <<cfg, store0, pf, result, inv>>

MgScan ==
  /\ mg.pc = "scan"
  /\ MergeAct(MergeScan(files, folders, cfg, mg))
  /\ UNCHANGED elapsed

\* The for loop of mergeDuplicateFolders reads the clock only for a group
\* of two folders or more: `if (folders.length < 2) continue` comes first.
MergeChecksDeadline(m) ==
  /\ m.g + 1 <= Len(m.groups)
  /\ Len(m.groups[m.g + 1].folders) >= 2

\* Time passes between two readings of the clock.
MgNextGroup ==
  /\ mg.pc = "groups"
  /\ \E now \in elapsed..MaxElapsed :
       /\ elapsed' = IF MergeChecksDeadline(mg) THEN now ELSE elapsed
       /\ MergeAct(MergeNextGroup(files, folders, cfg, mg, now))

MgNextSource ==
  /\ mg.pc = "sources"
  /\ MergeAct(MergeNextSource(files, folders, cfg, mg))
  /\ UNCHANGED elapsed

MgFile ==
  /\ mg.pc = "files"
  /\ MergeAct(MergeFile(files, folders, cfg, mg))
  /\ UNCHANGED elapsed

MgSourceDone ==
  /\ mg.pc = "merged"
  /\ MergeAct(MergeSourceDone(files, folders, cfg, mg))
  /\ UNCHANGED elapsed

ResolveConflict ==
  /\ result.op = "resolveFileConflict"
  /\ result.value = "PENDING"
  /\ result' = [result EXCEPT
                  !.value = ResolveFileConflict(files, result.a, result.b, cfg)]
  /\ UNCHANGED <<files, folders, cfg, elapsed, calls, store0, pf, mg, inv>>

UniqueName ==
  /\ result.op = "generateUniqueName"
  /\ result.value = "PENDING"
  /\ result' = [result EXCEPT
                  !.value = GenerateUniqueName(files, result.a, result.b)]
  /\ UNCHANGED <<files, folders, cfg, elapsed, calls, store0, pf, mg, inv>>

\* The trigger fires again: processFolder runs a second time on the same
\* folder, on the store the first run left.
PfRunAgain ==
  /\ pf.pc = "done"
  /\ inv.run = 1
  /\ pf' = PfStart(pf.folder)
  /\ inv' = [inv EXCEPT !.run = 2, !.mark = Len(calls),
                        !.mid = [files |-> files, folders |-> folders]]
  /\ UNCHANGED <<files, folders, cfg, elapsed, calls, store0, mg, result>>

\* The trigger fires again: mergeDuplicateFolders runs a second time on the
\* same root, on the store the first run left, with a new start time.
MgRunAgain ==
  /\ mg.pc = "done"
  /\ inv.run = 1
  /\ mg' = MgStart(mg.root)
  /\ inv' = [inv EXCEPT !.run = 2, !.mark = Len(calls),
                        !.mid = [files |-> files, folders |-> folders]]
  /\ elapsed' = 0
  /\ UNCHANGED <<files, folders, cfg, calls, store0, pf, result>>

\* Lines 100-101 of mergeDuplicateFolders: the target and the sources.
SelectTarget ==
  /\ result.op = "selectTargetFolder"
  /\ result.value = NoTarget
  /\ LET targetFolder == SelectTargetFolder(files, folders, result.a, cfg)
         sourceFolders == FilterNotTarget(result.a, targetFolder.id)
     IN  result' = [result EXCEPT
                      !.value = [target |-> targetFolder.id,
                                 sources |-> [k \in 1..Len(sourceFolders) |->
                                                sourceFolders[k].id]]]
  /\ UNCHANGED <<files, folders, cfg, elapsed, calls, store0, pf, mg, inv>>

(***************************************************************************)
(* Specifications                                                          *)
(***************************************************************************)
NextDedup == PfScan \/ PfNextGroup \/ PfDuplicate

NextMerge == MgScan \/ MgNextGroup \/ MgNextSource \/ MgFile \/ MgSourceDone

SpecDedup == InitDedup /\ [][NextDedup]_vars

SpecMerge == InitMerge /\ [][NextMerge]_vars

SpecConflict == InitConflict /\ [][ResolveConflict]_vars

SpecUniqueName == InitUniqueName /\ [][UniqueName]_vars

NextDedupAgain == NextDedup \/ PfRunAgain

NextMergeAgain == NextMerge \/ MgRunAgain

SpecDedupAgain == InitDedup /\ [][NextDedupAgain]_vars

SpecMergeAgain == InitMerge /\ [][NextMergeAgain]_vars

SpecSelect == InitSelect /\ [][SelectTarget]_vars

SpecScan == InitScan /\ [][NextMerge]_vars

Init == InitDedup \/ InitMerge

Next == NextDedup \/ NextMerge

Spec == Init /\ [][Next]_vars

(***************************************************************************)
(* Properties of processFolder (Phase 2)                                   *)
(***************************************************************************)
Hashes == {"H1", "H2"}

\* The content-hash group of hash h in the folder given to processFolder, as
\* the store was before the run: the visible files with that hash whose
\* extension is not excluded.
HashGroup(h) ==
  {f \in DOMAIN store0.files :
     /\ store0.files[f].parent = pf.folder
     /\ ~store0.files[f].trashed
     /\ store0.files[f].md5 = h
     /\ ~IsFileExcluded(store0.files[f].name, cfg.EXCLUDED_EXTENSIONS)}

\* The member created first; among members created at the same time, the
\* one listed first.
Earliest(h) ==
  CHOOSE f \in HashGroup(h) :
    \A g \in HashGroup(h) :
      \/ store0.files[f].created < store0.files[g].created
      \/ store0.files[f].created = store0.files[g].created /\ f <= g

Distance(h, f) == store0.files[f].created - store0.files[Earliest(h)].created

\* C1: in every content-hash group of the folder, of any size, the member
\* created first is never trashed by processFolder.
C1_EarliestNeverTrashed ==
  pf.pc # "idle" =>
    \A h \in Hashes : HashGroup(h) # {} => ~files[Earliest(h)].trashed

\* A live run is over, it trashed a member of a group and kept the earliest.
C1_Witness ==
  /\ pf.pc = "done"
  /\ ~cfg.DRY_RUN
  /\ \E h \in Hashes :
       /\ Cardinality(HashGroup(h)) = 3
       /\ \E f \in HashGroup(h) : files[f].trashed
       /\ ~files[Earliest(h)].trashed

\* C2: after a live processFolder, a member other than the earliest is
\* trashed if and only if its distance from the earliest member is within
\* the window, a distance equal to the window counting as within.
C2_TrashedIffWithinWindow ==
  (pf.pc = "done" /\ ~cfg.DRY_RUN) =>
    \A h \in Hashes : \A f \in HashGroup(h) :
      f # Earliest(h) =>
        (files[f].trashed <=> Distance(h, f) <= cfg.DUPLICATION_WINDOW_MS)

(***************************************************************************)
(* Properties of dry-run                                                   *)
(***************************************************************************)
\* C3: with dry-run on, no mutating store call is issued: every file and
\* every folder keeps its parent, its name and its trashed flag.
C3_DryRunNoMutation ==
  cfg.DRY_RUN =>
    /\ calls = <<>>
    /\ \A f \in DOMAIN files :
         /\ files[f].parent = store0.files[f].parent
         /\ files[f].name = store0.files[f].name
         /\ files[f].trashed = store0.files[f].trashed
    /\ \A d \in DOMAIN folders :
         /\ folders[d].parent = store0.folders[d].parent
         /\ folders[d].name = store0.folders[d].name
         /\ folders[d].trashed = store0.folders[d].trashed

\* A dry run of the merge is over and reported a move and a duplicate.
C3_Witness ==
  /\ cfg.DRY_RUN
  /\ mg.pc = "done"
  /\ mg.stats.filesMovedDuringMerge > 0
  /\ mg.stats.filesDuplicatedDuringMerge > 0

LiveConfig == [cfg EXCEPT !.DRY_RUN = FALSE]

\* The statistics of the same operation run live from the same store.
LiveMergeStats ==
  MergeRun(store0.files, store0.folders, LiveConfig, MgStart(mg.root), 0).mg.stats

LiveDedupStats == ProcessFolderRun(store0.files, LiveConfig, PfStart(pf.folder)).pf

\* C4: the statistics of a dry run are those of the live run from the same
\* store (no run cut short by the time limit).
C4_DryRunStatsEqualLive ==
  /\ (cfg.DRY_RUN /\ mg.pc = "done" /\ elapsed = 0) =>
       /\ mg.stats.filesMovedDuringMerge = LiveMergeStats.filesMovedDuringMerge
       /\ mg.stats.filesDuplicatedDuringMerge = LiveMergeStats.filesDuplicatedDuringMerge
       /\ mg.stats.filesRenamedDuringMerge = LiveMergeStats.filesRenamedDuringMerge
       /\ mg.stats.emptyFoldersDeleted = LiveMergeStats.emptyFoldersDeleted
  /\ (cfg.DRY_RUN /\ pf.pc = "done") =>
       /\ pf.filesDeleted = LiveDedupStats.filesDeleted
       /\ pf.spaceFreed = LiveDedupStats.spaceFreed

(***************************************************************************)
(* Properties of resolveFileConflict                                       *)
(***************************************************************************)
HashAbsent(f) == files[f].md5 \in {MD5_NONE, MD5_ERROR}

\* The decision for an existing file e and an incoming file i.
ExpectedResolution(e, i) ==
  LET d == IF files[i].created >= files[e].created
           THEN files[i].created - files[e].created
           ELSE files[e].created - files[i].created
  IN  IF HashAbsent(e) \/ HashAbsent(i) THEN "RENAME_INCOMING"
      ELSE IF files[e].md5 # files[i].md5 THEN "RENAME_INCOMING"
      ELSE IF d > cfg.DUPLICATION_WINDOW_MS THEN "RENAME_INCOMING"
      ELSE IF files[e].created <= files[i].created THEN "KEEP_EXISTING"
      ELSE "KEEP_INCOMING"

TrueDuplicateHandled ==
  /\ mg.pc \in {"files", "merged"}
  /\ ~cfg.DRY_RUN
  /\ mg.conflict.resolution \in {"KEEP_EXISTING", "KEEP_INCOMING"}

LastCalls(n) == SubSeq(calls, Len(calls) - n + 1, Len(calls))

\* C6: after a true-duplicate collision is handled live, exactly one of the
\* two files is untrashed, it is in the target under the original name and
\* it is the earlier one (the existing one when the times are equal); to
\* keep the existing file the incoming one is trashed and not moved, to keep
\* the incoming file the existing one is trashed and then the incoming one
\* is moved.
C6_TrueDuplicateKeepsEarlier ==
  TrueDuplicateHandled =>
    LET e == mg.conflict.existingFile
        i == mg.conflict.incomingFile
        keep == IF files[e].created <= files[i].created THEN e ELSE i
        drop == IF keep = e THEN i ELSE e
    IN  /\ ~files[keep].trashed
        /\ files[drop].trashed
        /\ files[keep].parent = mg.target.id
        /\ files[keep].name = store0.files[i].name
        /\ keep = e =>
             /\ files[i].parent = mg.sources[mg.s].id
             /\ LastCalls(1) = <<Call("setTrashed", "file", i, TRUE)>>
        /\ keep = i =>
             LastCalls(2) = <<Call("setTrashed", "file", e, TRUE),
                              Call("moveTo", "file", i, mg.target.id)>>

(***************************************************************************)
(* Properties of generateUniqueName                                        *)
(***************************************************************************)
NameTaken(folder, name) ==
  \E f \in DOMAIN files : files[f].parent = folder /\ files[f].name = name

\* The positions of the dots of a name (1-based).
Dots(base) == {k \in 1..Len(base) : base[k] = "."}

LastDot(base) == CHOOSE k \in Dots(base) : \A j \in Dots(base) : j <= k

\* Stem and extension of a name split at its last dot; a name without a dot
\* is all stem.
StemAtLastDot(base) ==
  IF Dots(base) = {} THEN base ELSE SubSeq(base, 1, LastDot(base) - 1)

ExtAtLastDot(base) ==
  IF Dots(base) = {} THEN <<>> ELSE SubSeq(base, LastDot(base), Len(base))

\* The same, except that a dot in first position does not split the name.
StemAtInnerDot(base) ==
  IF Dots(base) = {} \/ LastDot(base) = 1 THEN base ELSE StemAtLastDot(base)

ExtAtInnerDot(base) ==
  IF Dots(base) = {} \/ LastDot(base) = 1 THEN <<>> ELSE ExtAtLastDot(base)

Suffix(k) == <<" ", "(">> \o NumberToString(k) \o <<")">>

\* value is stem + " (k)" + ext for the smallest k >= 2 whose name no file
\* of the folder has.
IsSmallestFree(value, stem, ext, folder) ==
  \E k \in 2..(Cardinality(DOMAIN files) + 2) :
    /\ value = stem \o Suffix(k) \o ext
    /\ ~NameTaken(folder, value)
    /\ \A j \in 2..(k - 1) : NameTaken(folder, stem \o Suffix(j) \o ext)

UniqueNameReturned ==
  result.op = "generateUniqueName" /\ result.value # "PENDING"

\* C7 as stated: the result is stem + " (k)" + extension with the name split
\* at its last dot and k the smallest integer >= 2 that is free in the
\* target.
C7_SplitAtLastDot ==
  UniqueNameReturned =>
    IsSmallestFree(result.value, StemAtLastDot(result.a), ExtAtLastDot(result.a),
                   result.b)

\* C7 as amended: the same, but a name whose only dot is its first
\* character is not split: the suffix goes at its end.
C7_SplitAtInnerDot ==
  UniqueNameReturned =>
    IsSmallestFree(result.value, StemAtInnerDot(result.a), ExtAtInnerDot(result.a),
                   result.b)

\* "a (2).p", "a (3).p" and "a (4).p" are in the target and "a.p" becomes
\* "a (5).p".
C7_Witness ==
  /\ UniqueNameReturned
  /\ result.a = NameAP
  /\ \A k \in 2..4 : NameTaken(result.b, <<"a">> \o Suffix(k) \o <<".", "p">>)
  /\ result.value = <<"a", " ", "(", "5", ")", ".", "p">>

(***************************************************************************)
(* Properties of the merge of a duplicate-folder group                     *)
(***************************************************************************)
TargetChosen == mg.target.id # NoParent

Untrashed(fs, folder) == {f \in DOMAIN fs : fs[f].parent = folder /\ ~fs[f].trashed}

DistinctNames(fs, S) == \A f, g \in S : f # g => fs[f].name # fs[g].name

RenameHandled ==
  /\ mg.pc \in {"files", "merged"}
  /\ mg.conflict.resolution = "RENAME_INCOMING"

\* C8: in a live merge, if the untrashed files of the target had pairwise
\* distinct names before, they have pairwise distinct names after every
\* step; a file renamed on a collision is in the target, untrashed, under a
\* name no other file of the target has, and the step trashes neither file
\* of the colliding pair.
C8_NamesStayDistinct ==
  (TargetChosen /\ ~cfg.DRY_RUN) =>
    /\ DistinctNames(store0.files, Untrashed(store0.files, mg.target.id)) =>
         DistinctNames(files, Untrashed(files, mg.target.id))
    /\ RenameHandled =>
         LET i == mg.conflict.incomingFile
             e == mg.conflict.existingFile
         IN  /\ files[i].parent = mg.target.id
             /\ ~files[i].trashed
             /\ \A f \in DOMAIN files :
                  (f # i /\ files[f].parent = mg.target.id) =>
                    files[f].name # files[i].name
             /\ files[e].trashed = store0.files[e].trashed
             /\ \A k \in 1..2 : LastCalls(2)[k].op # "setTrashed"

\* C9: a source folder is trashed only when, at that moment, no file and no
\* folder has it as parent.
C9_TrashedOnlyWhenEmpty ==
  [][\A d \in DOMAIN folders :
       (folders'[d].trashed /\ ~folders[d].trashed) =>
         /\ \A f \in DOMAIN files : files[f].parent # d
         /\ \A e \in DOMAIN folders : folders[e].parent # d]_vars

\* A source folder that held a file was emptied and trashed by the run.
C9_Witness ==
  \E d \in DOMAIN folders :
    /\ folders[d].trashed
    /\ ~store0.folders[d].trashed
    /\ \E f \in DOMAIN files : store0.files[f].parent = d

\* The folders of the root that share the name "a", compared in lower case.
DuplicateGroup ==
  {d \in DOMAIN store0.folders :
     /\ store0.folders[d].parent = RootId
     /\ ToLowerCase(store0.folders[d].name) = <<"a">>}

SourcesOfGroup == DuplicateGroup \ {mg.target.id}

\* C10: after a live merge of a duplicate group whose sources hold files
\* only, every source folder is trashed and the target is the one untrashed
\* folder left under that parent and name.
C10_SourcesTrashed ==
  ( /\ mg.pc = "done"
    /\ ~cfg.DRY_RUN
    /\ elapsed = 0
    /\ \A d \in SourcesOfGroup :
         \A e \in DOMAIN store0.folders : store0.folders[e].parent # d )
  => /\ \A d \in SourcesOfGroup : folders[d].trashed
     /\ {d \in DuplicateGroup : ~folders[d].trashed} = {mg.target.id}

(***************************************************************************)
(* Properties of a second run                                              *)
(***************************************************************************)
\* In store st the duplicate group is fully merged: one folder of the group
\* is left untrashed and every other one is trashed and holds no file.
FullyMerged(st) ==
  /\ Cardinality({d \in DuplicateGroup : ~st.folders[d].trashed}) = 1
  /\ \A d \in DuplicateGroup :
       st.folders[d].trashed =>
         \A f \in DOMAIN st.files : st.files[f].parent # d

SecondMergeDone == inv.run = 2 /\ mg.pc = "done" /\ ~cfg.DRY_RUN

\* C11: once a live run has fully merged the duplicate group, a second run
\* of mergeDuplicateFolders finds no group of two or more folders at that
\* key and issues no move, rename or trash call.
C11_MergeIdempotent ==
  (SecondMergeDone /\ FullyMerged(inv.mid)) =>
    /\ \A k \in 1..Len(mg.groups) :
         mg.groups[k].key = <<RootId, <<"a">>>> => Len(mg.groups[k].folders) < 2
    /\ Len(calls) = inv.mark

SecondDedupDone == inv.run = 2 /\ pf.pc = "done" /\ ~cfg.DRY_RUN

\* C12: a second live run of processFolder on the store the first run left
\* trashes no file: its filesDeleted is 0 and it issues no call.
C12_DedupIdempotent ==
  SecondDedupDone => (pf.filesDeleted = 0 /\ Len(calls) = inv.mark)

\* The first run trashed a file and kept a member outside the window; the
\* second run is over.
C12_Witness ==
  /\ SecondDedupDone
  /\ inv.mark > 0
  /\ \E h \in Hashes : \E f \in HashGroup(h) :
       f # Earliest(h) /\ ~files[f].trashed

(***************************************************************************)
(* Properties of selectTargetFolder                                        *)
(***************************************************************************)
\* Folder x is folder d or lies below it.
RECURSIVE IsAtOrBelow(_, _)
IsAtOrBelow(x, d) ==
  IF x = d THEN TRUE
  ELSE IF x = NoParent THEN FALSE
  ELSE IsAtOrBelow(folders[x].parent, d)

\* What the strategy maximises: the negated creation time, the time of the
\* last update, or the number of files in the folder and below it.
Score(d) ==
  CASE cfg.MERGE_KEEP_FOLDER_STRATEGY = "OLDEST" -> 0 - folders[d].created
    [] cfg.MERGE_KEEP_FOLDER_STRATEGY = "NEWEST" -> folders[d].updated
    [] cfg.MERGE_KEEP_FOLDER_STRATEGY = "MOST_FILES" ->
         Cardinality({f \in DOMAIN files : IsAtOrBelow(files[f].parent, d)})

TargetSelected == result.op = "selectTargetFolder" /\ result.value # NoTarget

\* The sequence s without the element x, in the same order.
RECURSIVE Without(_, _)
Without(s, x) ==
  IF s = <<>> THEN <<>>
  ELSE IF Head(s) = x THEN Without(Tail(s), x)
  ELSE <<Head(s)>> \o Without(Tail(s), x)

\* C13: the target is a member of the group with the best score of the
\* strategy, no member before it in the input has that score, and every
\* other member is a source, for OLDEST, NEWEST and MOST_FILES.
C13_TargetIsFirstExtreme ==
  TargetSelected =>
    LET ids == [k \in 1..Len(result.a) |-> result.a[k].id]
    IN  \E t \in 1..Len(ids) :
          /\ result.value.target = ids[t]
          /\ \A k \in 1..Len(ids) : Score(ids[k]) <= Score(ids[t])
          /\ \A k \in 1..(t - 1) : Score(ids[k]) < Score(ids[t])
          /\ result.value.sources = Without(ids, ids[t])

\* Every member holds one file, one of them in its subfolder: all have the
\* same recursive count and the first member is the target.
C13_Witness ==
  /\ TargetSelected
  /\ cfg.MERGE_KEEP_FOLDER_STRATEGY = "MOST_FILES"
  /\ \A d \in 1..3 : Score(d) = 1
  /\ \E f \in DOMAIN files : files[f].parent = 4
  /\ result.value.target = 1
  /\ result.value.sources = <<2, 3>>

(***************************************************************************)
(* main.ts: cleanDuplicateAttachments; processors.ts: processRootFolder    *)
(***************************************************************************)
\* Lines 52-69 of processRootFolder: the subfolders of the root that are not
\* excluded, in listing order.
RECURSIVE LoadSubfolders(_, _, _)
LoadSubfolders(fo, c, subFolders) ==
  IF subFolders = <<>> THEN <<>>
  ELSE IF IsFolderExcluded(fo, Head(subFolders), c.EXCLUDED_FOLDER_IDS)
  THEN LoadSubfolders(fo, c, Tail(subFolders))
  ELSE <<Head(subFolders)>> \o LoadSubfolders(fo, c, Tail(subFolders))

\* A sort by (a, b) => a.lastModified - b.lastModified: least recently updated
\* first.
RECURSIVE InsertOldestFirst(_, _, _)
InsertOldestFirst(fo, d, sorted) ==
  IF sorted = <<>> THEN <<d>>
  ELSE IF fo[Head(sorted)].updated <= fo[d].updated
  THEN <<Head(sorted)>> \o InsertOldestFirst(fo, d, Tail(sorted))
  ELSE <<d>> \o sorted

\* folders.sort((a, b) => b.lastModified - a.lastModified): a stable sort,
\* most recently updated first.
RECURSIVE InsertByLastModified(_, _, _)
InsertByLastModified(fo, d, sorted) ==
  IF sorted = <<>> THEN <<d>>
  ELSE IF fo[Head(sorted)].updated >= fo[d].updated
  THEN <<Head(sorted)>> \o InsertByLastModified(fo, d, Tail(sorted))
  ELSE <<d>> \o sorted

RECURSIVE SortByLastModified(_, _, _)
SortByLastModified(fo, list, sorted) ==
  IF list = <<>> THEN sorted
  ELSE SortByLastModified(fo, Tail(list),
                          InsertByLastModified(fo, Head(list), sorted))

\* The Fisher-Yates shuffle with Math.random(): any order of the list.
Shuffles(list) ==
  {s \in [1..Len(list) -> {list[k] : k \in 1..Len(list)}] :
     \A k1, k2 \in 1..Len(list) : s[k1] = s[k2] => k1 = k2}

\* The orders in which processRootFolder may visit the subfolders of a root.
FolderOrders(fo, c, rootFolder) ==
  LET loaded == LoadSubfolders(fo, c, GetFolders(fo, rootFolder))
  IN  IF c.FOLDER_SORT_MODE = "RANDOM" THEN Shuffles(loaded)
      ELSE {SortByLastModified(fo, loaded, <<>>)}

\* Lines 104-108 of processRootFolder.
AddFolderStats(stats, folderStats) ==
  [stats EXCEPT !.foldersProcessed = @ + 1,
                !.filesAnalyzed = @ + folderStats.filesAnalyzed,
                !.filesSkipped = @ + folderStats.filesSkipped,
                !.filesDeleted = @ + folderStats.filesDeleted,
                !.spaceFreed = @ + folderStats.spaceFreed]

\* Lines 142-147 of cleanDuplicateAttachments.
AddRootStats(totalStats, stats) ==
  [foldersProcessed |-> totalStats.foldersProcessed + stats.foldersProcessed,
   totalFolders |-> totalStats.totalFolders + stats.totalFolders,
   filesAnalyzed |-> totalStats.filesAnalyzed + stats.filesAnalyzed,
   filesSkipped |-> totalStats.filesSkipped + stats.filesSkipped,
   filesDeleted |-> totalStats.filesDeleted + stats.filesDeleted,
   spaceFreed |-> totalStats.spaceFreed + stats.spaceFreed]

\* The catch of processRootFolder (lines 110-114): the folder is given up
\* and the loop goes on with the next one.
RethrowFolderError(v, folder) == [v EXCEPT !.pc = "done"]

CatchFolderError(v, folder) ==
  [v EXCEPT !.pc = "folders", !.failed = @ \cup {folder}]

\* The catch of cleanDuplicateAttachments (lines 149-154): the root is given
\* up and the loop goes on with the next one.
CatchRootError(v, rootFolder) ==
  [v EXCEPT !.pc = "roots", !.failed = @ \cup {rootFolder}]

\* processRootFolder returns its stats and cleanDuplicateAttachments adds
\* them to the totals; the for loop over the roots goes on.
PrfReturn(v) ==
  [v EXCEPT !.pc = "roots", !.totalStats = AddRootStats(@, v.stats)]

\* The configurations of an invocation: one root or two, the merge flag on
\* or off, both sort modes.
RootLists == {<<RootId>>, <<RootId, 3>>}

SortModes == {"LAST_UPDATED", "RANDOM"}

\* Root 0 holds "A" (1) and "a" (2); root 3 holds "B" (4), and root 3 or
\* folder 4 may be unreadable.  Three files of at most two hashes.
InitMain ==
  /\ \E updated2 \in {0, 1}, denied \in {NoFolder, 3, 4} :
       folders = [d \in {RootId, 1, 2, 3, 4} |->
         [CASE d = RootId -> RootFolder
            [] d = 1 -> Folder(RootId, <<"A">>, 0, 0)
            [] d = 2 -> Folder(RootId, <<"a">>, 0, updated2)
            [] d = 3 -> Folder(NoParent, <<"S">>, 0, 0)
            [] d = 4 -> Folder(3, <<"B">>, 0, 0)
          EXCEPT !.denied = (d = denied)]]
  /\ \E parent2 \in {1, 2}, parent3 \in {1, 2, 4}, md5 \in {"H1", "H2"},
        created \in [1..3 -> 0..MaxMergeTime] :
       files = [f \in 1..3 |->
                  File(CASE f = 1 -> 1 [] f = 2 -> parent2 [] f = 3 -> parent3,
                       NameAP, IF f = 3 THEN md5 ELSE "H1", created[f],
                       SizeOf(f), FALSE)]
  /\ \E dryRun \in BOOLEAN, window \in 1..MaxWindow, merge \in BOOLEAN,
        roots \in RootLists, mode \in SortModes :
       /\ (\E d \in DOMAIN folders : folders[d].denied) => Len(roots) = 2
       /\ cfg = [Config(dryRun, window, TRUE, "OLDEST") EXCEPT
                   !.MERGE_DUPLICATE_FOLDERS = merge,
                   !.ROOT_FOLDER_IDS = roots,
                   !.FOLDER_SORT_MODE = mode]
  /\ elapsed = 0
  /\ calls = <<>>
  /\ store0 = [files |-> files, folders |-> folders]
  /\ pf = PfIdle
  /\ mg = MgIdle
  /\ result = NoResult
  /\ inv = [InvIdle EXCEPT !.pc = "roots"]

\* One turn of the for loop of cleanDuplicateAttachments (lines 130-155) up
\* to the first folder of the root: the deadline check, getFolderById, and
\* the listing, filtering and ordering of processRootFolder (lines 49-94).
\* A root that cannot be read throws into the catch of line 149.
CdaNextRoot ==
  /\ inv.pc = "roots"
  /\ IF inv.r = Len(cfg.ROOT_FOLDER_IDS)
     THEN /\ inv' = [inv EXCEPT !.pc = "done"]
          /\ UNCHANGED elapsed
     ELSE \E now \in elapsed..MaxElapsed :
            /\ elapsed' = now
            /\ LET rootFolder == cfg.ROOT_FOLDER_IDS[inv.r + 1]
               IN  IF TimedOut(now, cfg)
                   THEN inv' = [inv EXCEPT !.pc = "done"]
                   ELSE IF folders[rootFolder].denied
                   THEN inv' = CatchRootError([inv EXCEPT !.r = @ + 1],
                                              rootFolder)
                   ELSE \E list \in FolderOrders(folders, cfg, rootFolder) :
                          inv' = [inv EXCEPT
                                    !.pc = "folders", !.r = @ + 1,
                                    !.list = list, !.i = 0,
                                    !.stats = [ZeroProcessingStats EXCEPT
                                                 !.totalFolders = Len(list)]]
  /\ UNCHANGED <<files, folders, cfg, calls, store0, pf, mg, result>>

\* One turn of the for loop of processRootFolder (lines 96-102) up to the
\* call of processFolder: the deadline check, then the folder is entered.
\* A folder whose files cannot be listed throws into the catch of line 110.
PrfNextFolder ==
  /\ inv.pc = "folders"
  /\ IF inv.i = Len(inv.list)
     THEN /\ inv' = PrfReturn(inv)
          /\ UNCHANGED <<elapsed, pf>>
     ELSE \E now \in elapsed..MaxElapsed :
            /\ elapsed' = now
            /\ LET folder == inv.list[inv.i + 1]
               IN  IF TimedOut(now, cfg)
                   THEN inv' = PrfReturn(inv) /\ UNCHANGED pf
                   ELSE IF folders[folder].denied
                   THEN /\ inv' = CatchFolderError([inv EXCEPT !.i = @ + 1],
                                                     folder)
                        /\ UNCHANGED pf
                   ELSE /\ inv' = [inv EXCEPT !.pc = "folder", !.i = @ + 1,
                                              !.started = @ \cup {folder}]
                        /\ pf' = PfStart(folder)
  /\ UNCHANGED <<files, folders, cfg, calls, store0, mg, result>>

\* processFolder has returned: lines 104-108 of processRootFolder.
PrfFolderDone ==
  /\ inv.pc = "folder"
  /\ pf.pc = "done"
  /\ inv' = [inv EXCEPT !.pc = "folders", !.stats = AddFolderStats(@, pf)]
  /\ pf' = PfIdle
  /\ UNCHANGED <<files, folders, cfg, elapsed, calls, store0, mg, result>>

\* processFolder threw: the catch of lines 110-114, no statistics added.
PrfFolderThrew ==
  /\ inv.pc = "folder"
  /\ pf.pc = "threw"
  /\ inv' = CatchFolderError(inv, pf.folder)
  /\ pf' = PfIdle
  /\ UNCHANGED <<files, folders, cfg, elapsed, calls, store0, mg, result>>

NextMain ==
  CdaNextRoot \/ PrfNextFolder \/ PfScan \/ PfNextGroup \/ PfDuplicate
    \/ PrfFolderDone

\* An invocation of the entry point.
SpecMain == InitMain /\ [][NextMain]_vars

\* An invocation of the entry point, or a call of mergeDuplicateFolders.
NextBudget == NextMain \/ NextMerge

InitBudget == InitMain \/ InitScan

SpecBudget == InitBudget /\ [][NextBudget]_vars

(***************************************************************************)
(* config.ts: getConfig, and the entry point from its first line           *)
(***************************************************************************)
\* A script property as stored: unset, a well-formed text with its value,
\* or a text that does not parse.
Unset == [kind |-> "unset", value |-> 0]
Text(v) == [kind |-> "text", value |-> v]
Malformed == [kind |-> "malformed", value |-> 0]

\* JSON.parse(props.getProperty(...) || '[]') throws on a malformed text.
JsonParseThrows(prop) == prop.kind = "malformed"

JsonParseList(prop) == IF prop.kind = "text" THEN prop.value ELSE <<>>

\* parseFloat(props.getProperty(...) || default)
ParseFloat(prop, default) ==
  CASE prop.kind = "unset" -> default
    [] prop.kind = "text" -> prop.value
    [] OTHER -> NaN

\* The products that turn hours and seconds into the unit of the clock.
Scaled(x) == IF x = NaN THEN NaN ELSE x

\* props.getProperty('DRY_RUN') === 'true'
IsTextTrue(prop) == prop.kind = "text" /\ prop.value = "true"

\* if (config.ROOT_FOLDER_IDS.length === 0) throw
RootListEmptyNever(rootFolderIds) == FALSE

RootListEmpty(rootFolderIds) == Len(rootFolderIds) = 0

DefaultWindowHours == 24

DefaultMaxSeconds == 300

GetConfigThrows(props) ==
  \/ JsonParseThrows(props.ROOT_FOLDER_IDS)
  \/ RootListEmpty(JsonParseList(props.ROOT_FOLDER_IDS))

GetConfig(props) ==
  [Config(IsTextTrue(props.DRY_RUN),
          Scaled(ParseFloat(props.DUPLICATION_WINDOW_HOURS, DefaultWindowHours)),
          TRUE, "OLDEST")
   EXCEPT !.ROOT_FOLDER_IDS = JsonParseList(props.ROOT_FOLDER_IDS),
          !.MAX_EXECUTION_TIME_MS =
             Scaled(ParseFloat(props.MAX_EXECUTION_TIME_SECONDS,
                               DefaultMaxSeconds))]

\* The configuration before getConfig has returned.
UnreadConfig ==
  [Config(FALSE, DefaultWindowHours, TRUE, "OLDEST") EXCEPT
     !.ROOT_FOLDER_IDS = <<>>, !.MAX_EXECUTION_TIME_MS = DefaultMaxSeconds]

\* The stored properties of an invocation.
RootListProps ==
  {Unset, Malformed, Text(<<>>), Text(<<RootId>>), Text(<<RootId, 3>>)}

NumberProps == {Unset, Malformed, Text(0), Text(1)}

BooleanProps == {Unset, Text("true"), Text("false"), Text("yes")}

\* The store of InitMain with the files of one hash; the properties are
\* read by the first step.
InitConfig ==
  /\ folders = [d \in {RootId, 1, 2, 3, 4} |->
       CASE d = RootId -> RootFolder
         [] d = 1 -> Folder(RootId, <<"A">>, 0, 0)
         [] d = 2 -> Folder(RootId, <<"a">>, 0, 0)
         [] d = 3 -> Folder(NoParent, <<"S">>, 0, 0)
         [] d = 4 -> Folder(3, <<"B">>, 0, 0)]
  /\ \E parent3 \in {1, 4}, created \in [2..3 -> 0..MaxMergeTime] :
       files = [f \in 1..3 |->
                  File(IF f = 3 THEN parent3 ELSE 1, NameAP, "H1",
                       IF f = 1 THEN 0 ELSE created[f], SizeOf(f), FALSE)]
  /\ \E rootIds \in RootListProps, window \in NumberProps,
        maxSeconds \in NumberProps, dryRun \in BooleanProps :
       result = [op |-> "getConfig",
                 a |-> [ROOT_FOLDER_IDS |-> rootIds,
                        DUPLICATION_WINDOW_HOURS |-> window,
                        MAX_EXECUTION_TIME_SECONDS |-> maxSeconds,
                        DRY_RUN |-> dryRun],
                 b |-> 0, value |-> "PENDING"]
  /\ cfg = UnreadConfig
  /\ elapsed = 0
  /\ calls = <<>>
  /\ store0 = [files |-> files, folders |-> folders]
  /\ pf = PfIdle
  /\ mg = MgIdle
  /\ inv = [InvIdle EXCEPT !.pc = "config"]

\* Lines 102-105 and 177-187 of cleanDuplicateAttachments: getConfig inside
\* the outer try; when it throws, the catch logs and the invocation is over.
CdaGetConfig ==
  /\ inv.pc = "config"
  /\ IF GetConfigThrows(result.a)
     THEN /\ inv' = [inv EXCEPT !.pc = "aborted"]
          /\ UNCHANGED cfg
     ELSE /\ inv' = [inv EXCEPT !.pc = "roots"]
          /\ cfg' = GetConfig(result.a)
  /\ result' = [result EXCEPT !.value = "READ"]
  /\ UNCHANGED <<files, folders, elapsed, calls, store0, pf, mg>>

NextConfig == CdaGetConfig \/ NextMain

SpecConfig == InitConfig /\ [][NextConfig]_vars

(***************************************************************************)
(* The entry point on a store some of whose folders and files fail         *)
(***************************************************************************)
RootListsOfTwo == {<<RootId>>, <<RootId, 3>>, <<3, RootId>>}

NoFile == 0

\* The store of InitMain with every file of one hash and one creation time;
\* one folder or root may be unreadable and one file may refuse setTrashed.
InitErrors ==
  /\ \E denied \in {NoFolder, 1, 2, 3, 4} :
       folders = [d \in {RootId, 1, 2, 3, 4} |->
         [CASE d = RootId -> RootFolder
            [] d = 1 -> Folder(RootId, <<"A">>, 0, 0)
            [] d = 2 -> Folder(RootId, <<"a">>, 0, 0)
            [] d = 3 -> Folder(NoParent, <<"S">>, 0, 0)
            [] d = 4 -> Folder(3, <<"B">>, 0, 0)
          EXCEPT !.denied = (d = denied)]]
  /\ \E parent2 \in {1, 2}, parent3 \in {1, 2, 4}, locked \in {NoFile, 2, 3} :
       files = [f \in 1..3 |->
                  [File(CASE f = 1 -> 1 [] f = 2 -> parent2 [] f = 3 -> parent3,
                        NameAP, "H1", 0, SizeOf(f), FALSE)
                   EXCEPT !.locked = (f = locked)]]
  /\ \E dryRun \in BOOLEAN, roots \in RootListsOfTwo, mode \in SortModes :
       cfg = [Config(dryRun, 1, TRUE, "OLDEST") EXCEPT
                !.ROOT_FOLDER_IDS = roots,
                !.FOLDER_SORT_MODE = mode]
  /\ elapsed = 0
  /\ calls = <<>>
  /\ store0 = [files |-> files, folders |-> folders]
  /\ pf = PfIdle
  /\ mg = MgIdle
  /\ result = NoResult
  /\ inv = [InvIdle EXCEPT !.pc = "roots"]

NextErrors == NextMain \/ PrfFolderThrew

SpecErrors == InitErrors /\ [][NextErrors]_vars

(***************************************************************************)
(* processRootFolder on a root of three subfolders of any recency          *)
(***************************************************************************)
RecencyFolders == {1, 2, 4}

MaxUpdated == 2

\* One root with the subfolders 1, 2 and 4, each last updated at any time;
\* one of them may be unreadable and one file may refuse setTrashed.
InitRecency ==
  /\ \E denied \in {NoFolder} \cup RecencyFolders,
        updated \in [RecencyFolders -> 0..MaxUpdated] :
       folders = [d \in {RootId} \cup RecencyFolders |->
         IF d = RootId THEN RootFolder
         ELSE [Folder(RootId, <<"A">>, 0, updated[d])
               EXCEPT !.denied = (d = denied)]]
  /\ \E parent2 \in {1, 2}, parent3 \in RecencyFolders,
        locked \in {NoFile, 2, 3} :
       files = [f \in 1..3 |->
                  [File(CASE f = 1 -> 1 [] f = 2 -> parent2 [] f = 3 -> parent3,
                        NameAP, "H1", 0, SizeOf(f), FALSE)
                   EXCEPT !.locked = (f = locked)]]
  /\ \E mode \in SortModes :
       cfg = [Config(FALSE, 1, TRUE, "OLDEST") EXCEPT
                !.ROOT_FOLDER_IDS = <<RootId>>,
                !.FOLDER_SORT_MODE = mode]
  /\ elapsed = 0
  /\ calls = <<>>
  /\ store0 = [files |-> files, folders |-> folders]
  /\ pf = PfIdle
  /\ mg = MgIdle
  /\ result = NoResult
  /\ inv = [InvIdle EXCEPT !.pc = "roots"]

SpecRecency == InitRecency /\ [][NextErrors]_vars

(***************************************************************************)
(* Two overlapping invocations of processFolder on one folder              *)
(***************************************************************************)
\* An invocation of processFolder whose scan loop is taken one file at a
\* time: its filesIterator (list, and the number k of files taken from it)
\* and the rest of its state p.
OvStart(folder) == [p |-> PfStart(folder), list |-> <<>>, k |-> 0]

\* folder.getFiles() of line 136: the iterator is created.
OverlapList(fs, c, v) ==
  LET list == GetFiles(fs, v.p.folder)
  IN  [v EXCEPT !.list = list, !.k = 0,
                !.p.pc = IF list = <<>> THEN "groups" ELSE "hash",
                !.p.g = 0]

\* One turn of the while loop of lines 143-192: isTrashed, the extension,
\* the md5, the push to fileGroups.
OverlapHash(fs, c, v) ==
  LET acc == GroupFilesByMd5(fs, c, <<v.list[v.k + 1]>>,
               [fileGroups |-> v.p.fileGroups,
                filesAnalyzed |-> v.p.filesAnalyzed,
                filesSkipped |-> v.p.filesSkipped])
  IN  [v EXCEPT !.k = @ + 1,
                !.p.fileGroups = acc.fileGroups,
                !.p.filesAnalyzed = acc.filesAnalyzed,
                !.p.filesSkipped = acc.filesSkipped,
                !.p.pc = IF v.k + 1 < Len(v.list) THEN "hash" ELSE "groups"]

\* Folder 1 holds three files of at most two hashes, one of them possibly
\* trashed; two live invocations of processFolder are about to run on it.
\* result.a and result.b are the two invocations.
InitOverlap ==
  /\ folders = [d \in {RootId, 1} |->
                  IF d = RootId THEN RootFolder ELSE Folder(RootId, <<"A">>, 0, 0)]
  /\ \E md5 \in [1..NumDedupFiles -> {"H1", "H2"}],
        created \in [1..NumDedupFiles -> 0..MaxTime],
        tr \in 0..NumDedupFiles :
       /\ md5[1] = "H1"
       /\ files = [f \in 1..NumDedupFiles |->
                     File(1, NameAP, md5[f], created[f], SizeOf(f), f = tr)]
  /\ \E window \in 1..MaxWindow : cfg = Config(FALSE, window, TRUE, "OLDEST")
  /\ elapsed = 0
  /\ calls = <<>>
  /\ store0 = [files |-> files, folders |-> folders]
  /\ pf = PfIdle
  /\ mg = MgIdle
  /\ result = [op |-> "processFolder", a |-> OvStart(1), b |-> OvStart(1),
               value |-> "NONE"]
  /\ inv = InvIdle

\* Invocation n takes its next step on the store as it is now.
OvSet(n, v) ==
  result' = IF n = 1 THEN [result EXCEPT !.a = v] ELSE [result EXCEPT !.b = v]

OvGet(n) == IF n = 1 THEN result.a ELSE result.b

OvList ==
  /\ result.op = "processFolder"
  /\ \E n \in {1, 2} :
       /\ OvGet(n).p.pc = "scan"
       /\ OvSet(n, OverlapList(files, cfg, OvGet(n)))
  /\ UNCHANGED <<files, folders, cfg, elapsed, calls, store0, pf, mg, inv>>

OvHash ==
  /\ result.op = "processFolder"
  /\ \E n \in {1, 2} :
       /\ OvGet(n).p.pc = "hash"
       /\ OvSet(n, OverlapHash(files, cfg, OvGet(n)))
  /\ UNCHANGED <<files, folders, cfg, elapsed, calls, store0, pf, mg, inv>>

OvNextGroup ==
  /\ result.op = "processFolder"
  /\ \E n \in {1, 2} :
       /\ OvGet(n).p.pc = "groups"
       /\ OvSet(n, [OvGet(n) EXCEPT
                      !.p = ProcessFolderNextGroup(files, cfg, OvGet(n).p).pf])
  /\ UNCHANGED <<files, folders, cfg, elapsed, calls, store0, pf, mg, inv>>

OvDuplicate ==
  /\ result.op = "processFolder"
  /\ \E n \in {1, 2} :
       /\ OvGet(n).p.pc = "dups"
       /\ LET r == ProcessFolderDuplicate(files, cfg, OvGet(n).p)
          IN  /\ OvSet(n, [OvGet(n) EXCEPT !.p = r.pf])
              /\ files' = r.files
              /\ calls' = calls \o r.calls
  /\ UNCHANGED <<folders, cfg, elapsed, store0, pf, mg, inv>>

NextOverlap == OvList \/ OvHash \/ OvNextGroup \/ OvDuplicate

SpecOverlap == InitOverlap /\ [][NextOverlap]_vars

(***************************************************************************)
(* processFolder with the file age filter configured                       *)
(***************************************************************************)
\* The values of FILE_AGE_FILTER_MS: 0 disables the filter.
AgeFilters == 0..MaxWindow

\* Date.now() of the invocation: later than every creation time.
NowOfRun == MaxTime + 1

\* One folder of three files of one or two hashes; the filter off or on.
InitAge ==
  /\ folders = [d \in {RootId, 1} |->
                  IF d = RootId THEN RootFolder ELSE Folder(RootId, <<"A">>, 0, 0)]
  /\ \E md5 \in {"H1", "H2"}, created \in [1..3 -> 0..MaxTime] :
       files = [f \in 1..3 |->
                  File(1, NameAP, IF f = 3 THEN md5 ELSE "H1", created[f],
                       SizeOf(f), FALSE)]
  /\ \E dryRun \in BOOLEAN, window \in 1..MaxWindow, age \in AgeFilters :
       cfg = [Config(dryRun, window, TRUE, "OLDEST") EXCEPT
                !.FILE_AGE_FILTER_MS = age]
  /\ elapsed = 0
  /\ calls = <<>>
  /\ store0 = [files |-> files, folders |-> folders]
  /\ pf = PfStart(1)
  /\ mg = MgIdle
  /\ result = NoResult
  /\ inv = InvIdle

SpecAge == InitAge /\ [][NextDedup]_vars

(***************************************************************************)
(* mergeDuplicateFolders on duplicate folders that hold duplicate folders  *)
(***************************************************************************)
\* Two folders "A" under the root, a folder "Q" in each, a file in each "Q"
\* and a third file anywhere.
InitNested ==
  /\ folders = [d \in {RootId, 1, 2, 3, 4} |->
       CASE d = RootId -> RootFolder
         [] d = 1 -> Folder(RootId, <<"A">>, 0, 0)
         [] d = 2 -> Folder(RootId, <<"A">>, 0, 0)
         [] d = 3 -> Folder(1, <<"Q">>, 0, 0)
         [] d = 4 -> Folder(2, <<"Q">>, 0, 0)]
  /\ \E parent3 \in 1..4, name2 \in {NameAP, NameA2P}, md5 \in {"H1", "H2"},
        created \in [1..3 -> 0..MaxMergeTime] :
       files = [f \in 1..3 |->
                  File(CASE f = 1 -> 3 [] f = 2 -> 4 [] f = 3 -> parent3,
                       IF f = 2 THEN name2 ELSE NameAP,
                       IF f = 2 THEN md5 ELSE "H1", created[f], SizeOf(f),
                       FALSE)]
  /\ \E dryRun \in BOOLEAN, recursive \in BOOLEAN :
       cfg = Config(dryRun, 1, recursive, "OLDEST")
  /\ elapsed = 0
  /\ calls = <<>>
  /\ store0 = [files |-> files, folders |-> folders]
  /\ pf = PfIdle
  /\ mg = MgStart(RootId)
  /\ result = NoResult
  /\ inv = InvIdle

SpecNested == InitNested /\ [][NextMerge]_vars

(***************************************************************************)
(* buildFolderTree on a store whose folders may have several parents       *)
(***************************************************************************)
\* The scan is stopped once allFolders holds this many nodes.
MaxScanned == 8

\* Folders 1 and 2 in the root, 3 in one of them, 4 in 3; each folder may
\* have one more parent among the other three, which makes folders reachable
\* along two paths or along a cycle.  buildFolderTree is about to enter its
\* outer loop: the queue holds the root, allFolders is empty.
InitTree ==
  /\ \E parent3 \in {1, 2},
        others \in [1..4 -> {{}} \cup {{d} : d \in 1..4}] :
       /\ \A d \in 1..4 : d \notin others[d]
       /\ others[1] \cap {RootId} = {} /\ others[2] \cap {RootId} = {}
       /\ parent3 \notin others[3] /\ 3 \notin others[4]
       /\ folders = [d \in {RootId, 1, 2, 3, 4} |->
            CASE d = RootId -> RootFolder
              [] d = 1 -> [Folder(RootId, <<"A">>, 0, 0) EXCEPT !.others = others[1]]
              [] d = 2 -> [Folder(RootId, <<"B">>, 0, 0) EXCEPT !.others = others[2]]
              [] d = 3 -> [Folder(parent3, <<"Q">>, 0, 0) EXCEPT !.others = others[3]]
              [] d = 4 -> [Folder(3, <<"S">>, 0, 0) EXCEPT !.others = others[4]]]
  /\ files = [f \in 1..1 |-> File(1, NameAP, "H1", 0, SizeOf(f), FALSE)]
  /\ \E recursive \in BOOLEAN : cfg = Config(TRUE, 1, recursive, "OLDEST")
  /\ elapsed = 0
  /\ calls = <<>>
  /\ store0 = [files |-> files, folders |-> folders]
  /\ pf = PfIdle
  /\ mg = MgIdle
  /\ result = [op |-> "buildFolderTree",
               a |-> <<[id |-> RootId, level |-> 0]>>, b |-> <<>>,
               value |-> "NONE"]
  /\ inv = InvIdle

\* One turn of the outer while loop of buildFolderTree; result.a is the queue
\* and result.b is allFolders.
BftTurn ==
  /\ result.op = "buildFolderTree"
  /\ result.a # <<>>
  /\ Len(result.b) < MaxScanned
  /\ LET turn == BuildFolderTreeTurn(folders, cfg, result.a, result.b)
     IN  result' = [result EXCEPT !.a = turn.queue, !.b = turn.allFolders]
  /\ UNCHANGED <<files, folders, cfg, elapsed, calls, store0, pf, mg, inv>>

\* while (queue.length > 0) is false: return allFolders.
BftReturn ==
  /\ result.op = "buildFolderTree"
  /\ result.a = <<>>
  /\ result.value = "NONE"
  /\ result' = [result EXCEPT !.value = "returned"]
  /\ UNCHANGED <<files, folders, cfg, elapsed, calls, store0, pf, mg, inv>>

NextTree == BftTurn \/ BftReturn

SpecTree == InitTree /\ [][NextTree]_vars

(***************************************************************************)
(* Properties of the folder scan                                           *)
(***************************************************************************)
\* The folders the scan reported.
Reported == {mg.folderTree[k].id : k \in 1..Len(mg.folderTree)}

ScanOver == mg.pc \notin {"idle", "scan", "failed"}

\* Folder d is in the exclusion set or lies below a folder that is.
RECURSIVE Excluded(_)
Excluded(d) ==
  IF d = NoParent THEN FALSE
  ELSE IF d \in cfg.EXCLUDED_FOLDER_IDS THEN TRUE
  ELSE Excluded(store0.folders[d].parent)

\* No file in an excluded folder or below one has been moved, renamed or
\* trashed.
ExcludedFilesUntouched ==
  \A f \in DOMAIN files :
    Excluded(store0.files[f].parent) => files[f] = store0.files[f]

ChildrenOfRoot == {d \in DOMAIN folders : folders[d].parent = mg.root}

GrandchildrenOfRoot ==
  {d \in DOMAIN folders : folders[d].parent \in ChildrenOfRoot}

\* C15 as stated: without recursion the scan reports the children of the
\* root and their children, and nothing deeper.
C15_GrandchildrenReported ==
  (ScanOver /\ ~cfg.MERGE_FOLDERS_RECURSIVE) =>
    Reported = {d \in ChildrenOfRoot \cup GrandchildrenOfRoot : ~Excluded(d)}

\* C15 as amended: without recursion the scan reports the children of the
\* root only, and lists the children of no folder but the root.
C15_OnlyChildrenReported ==
  (ScanOver /\ ~cfg.MERGE_FOLDERS_RECURSIVE) =>
    /\ Reported = {d \in ChildrenOfRoot : ~Excluded(d)}
    /\ mg.listed = {mg.root}

\* A scan without recursion is over; the root has grandchildren that are
\* not excluded, and its two children are all that is reported.
C15_Witness ==
  /\ ScanOver
  /\ ~cfg.MERGE_FOLDERS_RECURSIVE
  /\ \E d \in GrandchildrenOfRoot : ~Excluded(d)
  /\ Reported = {1, 2}

\* Folder d lies below a folder that cannot be read.
RECURSIVE BelowDenied(_)
BelowDenied(d) ==
  IF store0.folders[d].parent = NoParent THEN FALSE
  ELSE IF store0.folders[store0.folders[d].parent].denied THEN TRUE
  ELSE BelowDenied(store0.folders[d].parent)

\* C16: when a folder of the scan cannot be read, mergeDuplicateFolders
\* does not fail: the scan reports every folder in its range that is not
\* below the unreadable one, and the duplicate group of the root is merged.
C16_ScanFailureNonFatal ==
  ( /\ mg.pc \notin {"idle", "scan"}
    /\ \E d \in DOMAIN folders : folders[d].denied )
  => /\ mg.pc # "failed"
     /\ \A d \in DOMAIN folders \ {mg.root} :
          ( /\ cfg.MERGE_FOLDERS_RECURSIVE \/ d \in ChildrenOfRoot
            /\ ~BelowDenied(d) ) => d \in Reported
     /\ (mg.pc = "done" /\ elapsed = 0 /\ ~folders[1].denied) =>
          mg.stats.foldersMerged >= 1

(***************************************************************************)
(* Properties of groupDuplicateFolders                                     *)
(***************************************************************************)
\* The groups holding scanned node n.
GroupsOf(n) ==
  {g \in 1..Len(mg.groups) :
     \E j \in 1..Len(mg.groups[g].folders) : mg.groups[g].folders[j] = n}

\* The position of node n in the scan output.
ScanIndex(n) ==
  CHOOSE k \in 1..Len(mg.folderTree) : mg.folderTree[k] = n

SameFolderKey(n1, n2) ==
  n1.parentId = n2.parentId /\ ToLowerCase(n1.name) = ToLowerCase(n2.name)

\* The folders that are alone in their group.
SingletonFolders ==
  {mg.groups[g].folders[1].id :
     g \in {h \in 1..Len(mg.groups) : Len(mg.groups[h].folders) = 1}}

\* C17: once the scan is grouped, every scanned node is in exactly one group
\* and once in it, two nodes share a group exactly when they have the same
\* parent and the same name up to case, the members of a group are in scan
\* order, and a group of one member is never merged: it is never the group
\* being worked on, its folder is not trashed and the files in its folder
\* are left as they were.
C17_GroupsPartitionScan ==
  ScanOver =>
    /\ \A k \in 1..Len(mg.folderTree) :
         Cardinality(GroupsOf(mg.folderTree[k])) = 1
    /\ \A g \in 1..Len(mg.groups) :
         /\ Len(mg.groups[g].folders) >= 1
         /\ \A j \in 1..Len(mg.groups[g].folders) :
              /\ \E k \in 1..Len(mg.folderTree) :
                   mg.folderTree[k] = mg.groups[g].folders[j]
              /\ \A i \in 1..(j - 1) :
                   ScanIndex(mg.groups[g].folders[i])
                     < ScanIndex(mg.groups[g].folders[j])
    /\ \A k1, k2 \in 1..Len(mg.folderTree) :
         (GroupsOf(mg.folderTree[k1]) = GroupsOf(mg.folderTree[k2]))
           <=> SameFolderKey(mg.folderTree[k1], mg.folderTree[k2])
    /\ mg.pc \in {"sources", "files", "merged"} =>
         Len(mg.groups[mg.g].folders) >= 2
    /\ \A d \in SingletonFolders :
         /\ folders[d] = store0.folders[d]
         /\ \A f \in DOMAIN files :
              store0.files[f].parent = d => files[f] = store0.files[f]

\* A finished live merge: the scan found "A" and "a" under the root, grouped
\* together, and a third folder alone in its group; the pair was merged.
C17_Witness ==
  /\ mg.pc = "done"
  /\ Len(mg.groups) = 2
  /\ Len(mg.groups[1].folders) = 2
  /\ mg.groups[1].folders[1].name # mg.groups[1].folders[2].name
  /\ Len(mg.groups[2].folders) = 1
  /\ \E f \in DOMAIN files : store0.files[f].parent \in SingletonFolders
  /\ mg.stats.foldersMerged = 1
  /\ calls # <<>>

(***************************************************************************)
(* Properties of the execution budget                                      *)
(***************************************************************************)
\* The last deadline check found the budget spent.
Expired == elapsed > cfg.MAX_EXECUTION_TIME_MS

\* C18: once a deadline check has found the elapsed time greater than the
\* maximum execution time, no step of the invocation starts a folder, a
\* duplicate-folder group or a root, and none issues a call or changes the
\* store, in the dedup phase and in the merge phase alike.
C18_NothingStartedAfterExpiry ==
  [][Expired =>
       /\ calls' = calls
       /\ files' = files
       /\ folders' = folders
       /\ inv'.started = inv.started
       /\ inv'.r = inv.r
       /\ pf' = pf
       /\ mg'.g = mg.g
       /\ mg'.pc \in {mg.pc, "done"}]_vars

\* An invocation over two roots ended on an expired budget after trashing
\* a duplicate in one folder, with a folder of the first root and the whole
\* second root never started.
C18_WitnessDedup ==
  /\ inv.pc = "done"
  /\ Expired
  /\ calls # <<>>
  /\ inv.r = 1
  /\ Len(cfg.ROOT_FOLDER_IDS) = 2
  /\ Cardinality(inv.started) = 1
  /\ inv.stats.totalFolders = 2

\* A merge ended on an expired budget after merging one group, with a
\* second group of two folders never started.
C18_WitnessMerge ==
  /\ mg.pc = "done"
  /\ Expired
  /\ mg.stats.foldersMerged = 1
  /\ mg.stats.duplicateGroupsFound = 2

(***************************************************************************)
(* Properties of an invocation of the entry point                          *)
(***************************************************************************)
\* The hash group of file f at the start of the invocation: the files of
\* its folder with its content hash.
HashGroupOf(f) ==
  {e \in DOMAIN store0.files :
     /\ store0.files[e].parent = store0.files[f].parent
     /\ store0.files[e].md5 = store0.files[f].md5}

\* The creation time of the earliest member of the hash group of f.
EarliestCreated(f) ==
  CHOOSE t \in {store0.files[e].created : e \in HashGroupOf(f)} :
    \A e \in HashGroupOf(f) : t <= store0.files[e].created

\* f is not the first member of its hash group in ascending creation order,
\* members of equal creation time taken in listing order.
NonEarliest(f) ==
  \E e \in HashGroupOf(f) :
    \/ store0.files[e].created < store0.files[f].created
    \/ store0.files[e].created = store0.files[f].created /\ e < f

\* The trash candidates of folder d: the non-earliest members within the
\* window, a distance equal to the window being within it.
TrashCandidates(d) ==
  {f \in DOMAIN store0.files :
     /\ store0.files[f].parent = d
     /\ NonEarliest(f)
     /\ store0.files[f].created - EarliestCreated(f)
          <= cfg.DUPLICATION_WINDOW_MS}

\* The same with a distance equal to the window outside it, as line 214 of
\* processFolder takes it.
TrashCandidatesInside(d) ==
  {f \in TrashCandidates(d) :
     store0.files[f].created - EarliestCreated(f) < cfg.DUPLICATION_WINDOW_MS}

\* No file of folder d has been changed by the invocation.
Untouched(d) ==
  \A f \in DOMAIN files : store0.files[f].parent = d => files[f] = store0.files[f]

\* While processFolder is at work the invocation is inside the try of
\* processRootFolder, not at a deadline check.
NoCheckInsideFolder == pf.pc # "idle" => inv.pc = "folder"

\* C19: at the end of an invocation, however it ended, every folder is
\* untouched or has all its trash candidates trashed, and the deadline is
\* not evaluated while a folder is being processed.
C19_NoFolderHalfMutated ==
  /\ inv.pc = "done" =>
       \A d \in DOMAIN folders :
         Untouched(d) \/ \A f \in TrashCandidates(d) : files[f].trashed
  /\ NoCheckInsideFolder

\* The same with the candidates processFolder acts on (distance strictly
\* less than the window): the folders are whole up to the boundary case.
FoldersWholeInsideWindow ==
  /\ inv.pc = "done" =>
       \A d \in DOMAIN folders :
         Untouched(d) \/ \A f \in TrashCandidatesInside(d) : files[f].trashed
  /\ NoCheckInsideFolder

\* A live invocation ended on an expired budget with one folder processed,
\* its candidate trashed, and another folder holding a file never entered.
FoldersWholeWitness ==
  /\ inv.pc = "done"
  /\ Expired
  /\ \E d1, d2 \in DOMAIN folders :
       /\ ~Untouched(d1)
       /\ \A f \in TrashCandidatesInside(d1) : files[f].trashed
       /\ d2 \notin inv.started
       /\ \E f \in DOMAIN files : files[f].parent = d2

\* C20: in an invocation with merge enabled, processFolder is not entered
\* on a root's folders before mergeDuplicateFolders has run on that root;
\* with merge disabled mergeDuplicateFolders is never started.
C20_MergeBeforeDedup ==
  /\ (cfg.MERGE_DUPLICATE_FOLDERS /\ inv.pc = "folder") => mg.pc = "done"
  /\ (~cfg.MERGE_DUPLICATE_FOLDERS /\ inv.pc # "idle") => mg.pc = "idle"

(***************************************************************************)
(* Properties of the file age filter                                       *)
(***************************************************************************)
\* File f was created before now minus the age filter.
TooOld(f) ==
  store0.files[f].created < NowOfRun - cfg.FILE_AGE_FILTER_MS

\* The files processFolder put in its hash groups.
GroupedFiles ==
  UNION {{pf.fileGroups[g].members[k].id :
            k \in 1..Len(pf.fileGroups[g].members)} :
         g \in 1..Len(pf.fileGroups)}

\* C21: with an age filter greater than 0, a file created before now minus
\* the filter is in no hash group, is not counted as analyzed and is not
\* trashed by processFolder; with the filter 0 no file is dropped for its
\* age.
C21_OldFilesDropped ==
  pf.pc \in {"groups", "dups", "done"} =>
    /\ cfg.FILE_AGE_FILTER_MS > 0 =>
         /\ \A f \in DOMAIN files : TooOld(f) => f \notin GroupedFiles
         /\ pf.filesAnalyzed
              = Cardinality({f \in DOMAIN files : ~TooOld(f)})
         /\ \A f \in DOMAIN files : TooOld(f) => ~files[f].trashed
    /\ cfg.FILE_AGE_FILTER_MS = 0 => GroupedFiles = DOMAIN files

(***************************************************************************)
(* Properties of error handling                                            *)
(***************************************************************************)
\* The invocation is over and its last deadline check, if any, passed.
EndedWithinBudget == inv.pc = "done" /\ ~Expired

RootsOfRun ==
  {cfg.ROOT_FOLDER_IDS[k] : k \in 1..Len(cfg.ROOT_FOLDER_IDS)}

\* C22: when the invocation ends within its budget, every root of the list
\* has been taken and every readable subfolder of every readable root has
\* been entered, whatever folders, roots or files failed on the way.
C22_ErrorsIsolated ==
  EndedWithinBudget =>
    /\ inv.r = Len(cfg.ROOT_FOLDER_IDS)
    /\ \A rootFolder \in RootsOfRun : \A d \in DOMAIN folders :
         ( /\ ~folders[rootFolder].denied
           /\ folders[d].parent = rootFolder
           /\ ~folders[d].denied ) => d \in inv.started

\* An invocation ended within its budget in which processFolder threw in
\* the first folder of a root and the second folder was then processed.
C22_Witness ==
  /\ EndedWithinBudget
  /\ inv.list = <<1, 2>>
  /\ 1 \in inv.failed
  /\ inv.started = {1, 2}
  /\ inv.stats.foldersProcessed = 1

\* An invocation ended within its budget in which the first root could not
\* be read and both folders of the second root were processed.
C22_WitnessRoot ==
  /\ EndedWithinBudget
  /\ Len(cfg.ROOT_FOLDER_IDS) = 2
  /\ cfg.ROOT_FOLDER_IDS[1] \in inv.failed
  /\ inv.totalStats.foldersProcessed = 2

(***************************************************************************)
(* Properties of the configuration                                         *)
(***************************************************************************)
\* getConfig has been called.
ConfigRead == inv.pc # "config"

\* Aborted with nothing issued and the store as it was.
AbortedUnchanged ==
  /\ inv.pc = "aborted"
  /\ calls = <<>>
  /\ files = store0.files
  /\ folders = store0.folders

\* The root-folder list is unset, empty or not valid JSON.
RootListBad ==
  \/ result.a.ROOT_FOLDER_IDS.kind \in {"unset", "malformed"}
  \/ result.a.ROOT_FOLDER_IDS.value = <<>>

\* A stored value that is no number where a number is expected, or no
\* boolean where a boolean is expected.
ValueMalformed ==
  \/ result.a.DUPLICATION_WINDOW_HOURS.kind = "malformed"
  \/ result.a.MAX_EXECUTION_TIME_SECONDS.kind = "malformed"
  \/ result.a.DRY_RUN = Text("yes")

MalformedBudgetRuns ==
  /\ result.a.MAX_EXECUTION_TIME_SECONDS = Malformed
  /\ elapsed = MaxElapsed
  /\ calls # <<>>

(***************************************************************************)
(* Properties of the calls issued                                          *)
(***************************************************************************)
\* The calls a step appends to the log.
NewCalls == SubSeq(calls', Len(calls) + 1, Len(calls'))

ReversibleCall(call) ==
  \/ call.op \in {"moveTo", "setName"} /\ call.kind = "file"
  \/ call.op = "setTrashed" /\ call.arg = TRUE

\* C24: no step of a dedup or a merge removes a file or a folder from the
\* store, changes the content of a file or takes a file or a folder out of
\* the trash, and every call a step issues is a move, a rename or a
\* setTrashed(true).
C24_OnlyReversibleCalls ==
  [][/\ DOMAIN files' = DOMAIN files
     /\ DOMAIN folders' = DOMAIN folders
     /\ \A f \in DOMAIN files :
          /\ files[f].trashed => files'[f].trashed
          /\ files'[f].md5 = files[f].md5
          /\ files'[f].size = files[f].size
     /\ \A d \in DOMAIN folders : folders[d].trashed => folders'[d].trashed
     /\ \A k \in 1..Len(NewCalls) : ReversibleCall(NewCalls[k])]_vars

\* A finished live merge that moved a file, trashed a file and trashed a
\* folder, every file and folder still in the store.
C24_Witness ==
  /\ mg.pc = "done"
  /\ \E k \in 1..Len(calls) : calls[k].op = "moveTo"
  /\ \E k \in 1..Len(calls) : calls[k].op = "setTrashed" /\ calls[k].kind = "file"
  /\ \E k \in 1..Len(calls) : calls[k].op = "setTrashed" /\ calls[k].kind = "folder"
  /\ DOMAIN files = DOMAIN store0.files
  /\ DOMAIN folders = DOMAIN store0.folders

(***************************************************************************)
(* Properties of the recursive merge                                       *)
(***************************************************************************)
\* C25: after a recursive live merge that ran to its end within its budget
\* on two duplicate folders that hold a subfolder of the same name each,
\* one of the two subfolders survives and holds every untrashed file the
\* two held.
C25_NestedDuplicatesMerged ==
  ( /\ mg.pc = "done"
    /\ ~Expired
    /\ cfg.MERGE_FOLDERS_RECURSIVE
    /\ ~cfg.DRY_RUN )
  => \E survivor \in {3, 4} :
       /\ ~folders[survivor].trashed
       /\ \A f \in DOMAIN files :
            (store0.files[f].parent \in {3, 4} /\ ~files[f].trashed)
              => files[f].parent = survivor

\* The folders of the current root that the loop of processRootFolder has
\* taken from its list, and those of them that processFolder returned from.
Entered == {inv.list[k] : k \in 1..inv.i}

Processed ==
  {d \in Entered \ inv.failed : ~(inv.pc = "folder" /\ d = inv.list[inv.i])}

MoreRecentThanTheRest(some) ==
  \A a \in some, b \in {inv.list[k] : k \in 1..Len(inv.list)} \ some :
    folders[a].updated >= folders[b].updated

\* C26: with folder priority LAST_UPDATED, when the invocation has ended on an
\* expired budget, every processed subfolder of the root was updated no
\* earlier than every subfolder of the root that was not processed.
C26_ProcessedArePrefix ==
  (inv.pc = "done" /\ Expired /\ cfg.FOLDER_SORT_MODE = "LAST_UPDATED")
    => MoreRecentThanTheRest(Processed)

\* C26 (amended): with folder priority LAST_UPDATED the list of subfolders is
\* in non-increasing order of last update, and at every moment every
\* subfolder the loop has taken from the list, whether processFolder returned
\* or threw, was updated no earlier than every subfolder not yet taken.
C26_EnteredAreMostRecent ==
  cfg.FOLDER_SORT_MODE = "LAST_UPDATED"
    => /\ \A k1, k2 \in 1..Len(inv.list) :
            k1 < k2 =>
              folders[inv.list[k1]].updated >= folders[inv.list[k2]].updated
       /\ MoreRecentThanTheRest(Entered)

\* The budget expired after the most recent folder was processed and before
\* an older one was reached.
C26_Witness ==
  /\ inv.pc = "done"
  /\ Expired
  /\ cfg.FOLDER_SORT_MODE = "LAST_UPDATED"
  /\ inv.failed = {}
  /\ store0.folders[1].updated < store0.folders[4].updated
  /\ store0.folders[4].updated < store0.folders[2].updated
  /\ Processed = {2}
  /\ Len(inv.list) = 3

\* C27: buildFolderTree reports each folder identity at most once: no two
\* nodes of allFolders have the same id, whatever the parents of the folders.
C27_EachFolderOnce ==
  result.op = "buildFolderTree"
    => \A k1, k2 \in 1..Len(result.b) :
         result.b[k1].id = result.b[k2].id => k1 = k2

\* C27: the scan is bounded by the store: allFolders never holds more nodes
\* than the store has folders below the root.
C27_ScanEndsWithinStore ==
  result.op = "buildFolderTree"
    => Len(result.b) <= Cardinality(DOMAIN folders \ {RootId})

\* The first call of mergeFolder of a live run has just returned: the store
\* it started from is store0.
FirstMergeReturned ==
  mg.pc = "merged" /\ mg.stats.foldersMerged = 0 /\ ~cfg.DRY_RUN

InViewIn(fs, f, folder) == fs[f].parent = folder /\ ~fs[f].trashed

\* C28: after a live mergeFolder, every file that was untrashed in the source
\* is untrashed in the target, or is trashed while an untrashed file of its
\* hash is in the target; and every file that was untrashed in the target is
\* still untrashed there or an untrashed file of its hash and name is there.
C28_NoContentLostFromView ==
  FirstMergeReturned
    => LET source == mg.sources[mg.s].id
           target == mg.target.id
       IN  /\ \A f \in DOMAIN files :
                InViewIn(store0.files, f, source)
                  => \/ InViewIn(files, f, target)
                     \/ /\ files[f].trashed
                        /\ \E g \in DOMAIN files :
                             /\ InViewIn(files, g, target)
                             /\ files[g].md5 = files[f].md5
           /\ \A f \in DOMAIN files :
                InViewIn(store0.files, f, target)
                  => \/ InViewIn(files, f, target)
                     \/ \E g \in DOMAIN files :
                          /\ InViewIn(files, g, target)
                          /\ files[g].md5 = files[f].md5
                          /\ files[g].name = files[f].name

\* The files that processFolder has issued setTrashed(true) on, in the order
\* of the calls, and the sum of their sizes.
RECURSIVE TrashedByCalls(_)
TrashedByCalls(log) ==
  IF log = <<>> THEN <<>>
  ELSE IF Head(log).op = "setTrashed" /\ Head(log).kind = "file"
  THEN <<Head(log).id>> \o TrashedByCalls(Tail(log))
  ELSE TrashedByCalls(Tail(log))

RECURSIVE SizeOfAll(_)
SizeOfAll(trashed) ==
  IF trashed = <<>> THEN 0
  ELSE store0.files[Head(trashed)].size + SizeOfAll(Tail(trashed))

\* C29: at the end of a live invocation the filesDeleted total is the number
\* of setTrashed calls issued on files and the spaceFreed total is the sum
\* of the sizes of those files.
C29_StatsMatchEffects ==
  (inv.pc = "done" /\ ~cfg.DRY_RUN)
    => /\ inv.totalStats.filesDeleted = Len(TrashedByCalls(calls))
       /\ inv.totalStats.spaceFreed = SizeOfAll(TrashedByCalls(calls))

\* The files processFolder groups under one hash on the store the two
\* invocations started from.
Groupable(f) ==
  /\ ~store0.files[f].trashed
  /\ ~IsFileExcluded(store0.files[f].name, cfg.EXCLUDED_EXTENSIONS)
  /\ store0.files[f].md5 \notin {MD5_ERROR, MD5_NONE}

GroupedWith(f) ==
  {g \in DOMAIN files : Groupable(g) /\ store0.files[g].md5 = store0.files[f].md5}

\* What one invocation alone trashes on that store.
TrashedBySingleRun ==
  LET alone == ProcessFolderRun(store0.files, cfg, PfStart(1)).files
  IN  {f \in DOMAIN files : alone[f].trashed}

BothReturned == result.a.p.pc = "done" /\ result.b.p.pc = "done"

\* C30: two live invocations of processFolder on one folder, their steps
\* interleaved in any order: at every moment each hash group has an
\* untrashed member of the earliest creation time, and when both have
\* returned the trashed files are those one invocation alone would trash.
C30_OverlapIsHarmless ==
  result.op = "processFolder"
    => /\ \A f \in DOMAIN files :
            Groupable(f)
              => \E g \in GroupedWith(f) :
                   /\ ~files[g].trashed
                   /\ \A h \in GroupedWith(f) :
                        store0.files[g].created <= store0.files[h].created
       /\ BothReturned
            => {f \in DOMAIN files : files[f].trashed} = TrashedBySingleRun

\* Both invocations grouped three files of one hash before either trashed
\* one, both issued their trash calls on the same file, and one file of the
\* group was outside the window.
C30_Witness ==
  /\ result.op = "processFolder"
  /\ BothReturned
  /\ result.a.p.filesAnalyzed = 3
  /\ result.b.p.filesAnalyzed = 3
  /\ result.a.p.filesDeleted = 1
  /\ result.b.p.filesDeleted = 1
  /\ Len(calls) = 2
  /\ calls[1].id = calls[2].id

====
